---------------------------- MODULE Spec2Model ----------------------------
(***************************************************************************)
(* Model of greps.py: the incremental regular-expression search/replace   *)
(* dialog for Scribus.  Texts are sequences of one-character strings and  *)
(* offsets are 0-based, as in Python.  The handlers on_find_next,         *)
(* on_change, on_change_all and on_change_find are the operations the UI  *)
(* shell invokes; each is one action.                                     *)
(***************************************************************************)
EXTENDS Integers, Sequences, FiniteSets, TLC

(***************************************************************************)
(* Bounds of the model.                                                    *)
(***************************************************************************)
MaxInitLen == 2
MaxTextLen == 3

(***************************************************************************)
(* Sequence helpers (Python slices and str methods).                       *)
(***************************************************************************)
Slice(s, i, j) == [k \in 1..(IF j > i THEN j - i ELSE 0) |-> s[i + k]]

IsPrefixAt(s, t, i) ==
  /\ i + Len(t) - 1 <= Len(s)
  /\ \A k \in 1..Len(t) : s[i + k - 1] = t[k]

Contains(s, t) == \E i \in 1..(Len(s) + 1) : IsPrefixAt(s, t, i)

RECURSIVE StrReplaceFrom(_, _, _, _)
StrReplaceFrom(s, old, new, i) ==
  IF i > Len(s) THEN <<>>
  ELSE IF IsPrefixAt(s, old, i)
       THEN new \o StrReplaceFrom(s, old, new, i + Len(old))
       ELSE <<s[i]>> \o StrReplaceFrom(s, old, new, i + 1)

StrReplace(s, old, new) == StrReplaceFrom(s, old, new, 1)

Whitespace == {" ", "\t", "\n", "\r"}

RECURSIVE LStrip(_)
LStrip(s) ==
  IF s # <<>> /\ Head(s) \in Whitespace THEN LStrip(Tail(s)) ELSE s

RECURSIVE RStrip(_)
RStrip(s) ==
  IF s # <<>> /\ s[Len(s)] \in Whitespace
  THEN RStrip(SubSeq(s, 1, Len(s) - 1)) ELSE s

Strip(s) == RStrip(LStrip(s))

InSeq(x, s) == \E k \in 1..Len(s) : s[k] = x

IndexOf(x, s) == CHOOSE k \in 1..Len(s) : s[k] = x /\ \A j \in 1..(k - 1) : s[j] # x

RemoveAt(s, k) == SubSeq(s, 1, k - 1) \o SubSeq(s, k + 1, Len(s))

(***************************************************************************)
(* normalize_input: symbolic tags and escapes to literal text.             *)
(***************************************************************************)
TAGS == <<
  <<<<"<", "S", "P", "A", "C", "E", ">">>,
    <<" ">>>>,
  <<<<"<", "T", "A", "B", ">">>,
    <<"\t">>>>,
  <<<<"<", "N", "B", "S", "P", ">">>,
    <<"U+00A0">>>>,
  <<<<"<", "N", "A", "R", "R", "O", "W", "_", "N", "B", "S", "P", ">">>,
    <<"U+202F">>>>,
  <<<<"<", "E", "N", "S", "P", "A", "C", "E", ">">>,
    <<"U+2002">>>>,
  <<<<"<", "E", "M", "S", "P", "A", "C", "E", ">">>,
    <<"U+2003">>>>,
  <<<<"<", "T", "H", "R", "E", "E", "_", "P", "E", "R", "_", "E", "M", "_", "S", "P", "A", "C", "E", ">">>,
    <<"U+2004">>>>,
  <<<<"<", "F", "O", "U", "R", "_", "P", "E", "R", "_", "E", "M", "_", "S", "P", "A", "C", "E", ">">>,
    <<"U+2005">>>>,
  <<<<"<", "S", "I", "X", "_", "P", "E", "R", "_", "E", "M", "_", "S", "P", "A", "C", "E", ">">>,
    <<"U+2006">>>>,
  <<<<"<", "F", "I", "G", "U", "R", "E", "S", "P", "A", "C", "E", ">">>,
    <<"U+2007">>>>,
  <<<<"<", "P", "U", "N", "C", "T", "S", "P", "A", "C", "E", ">">>,
    <<"U+2008">>>>,
  <<<<"<", "T", "H", "I", "N", "S", "P", "A", "C", "E", ">">>,
    <<"U+2009">>>>,
  <<<<"<", "H", "A", "I", "R", "S", "P", "A", "C", "E", ">">>,
    <<"U+200A">>>>,
  <<<<"<", "Z", "E", "R", "O", "S", "P", "A", "C", "E", ">">>,
    <<"U+200B">>>>,
  <<<<"<", "E", "N", "D", "P", "A", "R", "A", ">">>,
    <<"\r">>>>,
  <<<<"<", "L", "I", "N", "E", "B", "R", "E", "A", "K", ">">>,
    <<"U+2028">>>>,
  <<<<"<", "C", "O", "L", "U", "M", "N", "B", "R", "E", "A", "K", ">">>,
    <<"U+001A">>>>,
  <<<<"<", "F", "R", "A", "M", "E", "B", "R", "E", "A", "K", ">">>,
    <<"U+001B">>>>,
  <<<<"<", "E", "M", "D", "A", "S", "H", ">">>,
    <<"U+2014">>>>,
  <<<<"<", "E", "N", "D", "A", "S", "H", ">">>,
    <<"U+2013">>>>,
  <<<<"<", "N", "O", "N", "_", "B", "R", "E", "A", "K", "I", "N", "G", "_", "H", "Y", "P", "H", "E", "N", ">">>,
    <<"U+2011">>>>,
  <<<<"<", "B", "U", "L", "L", "E", "T", ">">>,
    <<"U+2022">>>>,
  <<<<"<", "B", "A", "C", "K", "S", "L", "A", "S", "H", ">">>,
    <<"\\">>>>,
  <<<<"<", "C", "A", "R", "E", "T", ">">>,
    <<"^">>>>,
  <<<<"<", "C", "O", "P", "Y", "R", "I", "G", "H", "T", ">">>,
    <<"U+00A9">>>>,
  <<<<"<", "E", "L", "L", "I", "P", "S", "I", "S", ">">>,
    <<"U+2026">>>>,
  <<<<"<", "R", "E", "G", "T", "M", ">">>,
    <<"U+00AE">>>>,
  <<<<"<", "T", "R", "A", "D", "E", "M", "A", "R", "K", ">">>,
    <<"U+2122">>>>,
  <<<<"<", "L", "E", "F", "T", "P", "A", "R", "E", "N", "T", "H", "E", "S", "I", "S", ">">>,
    <<"\\", "(">>>>,
  <<<<"<", "R", "I", "G", "H", "T", "P", "A", "R", "E", "N", "T", "H", "E", "S", "I", "S", ">">>,
    <<"\\", ")">>>>,
  <<<<"<", "L", "E", "F", "T", "_", "S", "Q", "U", "A", "R", "E", "_", "B", "R", "A", "C", "K", "E", "T", ">">>,
    <<"\\", "[">>>>,
  <<<<"<", "R", "I", "G", "H", "T", "_", "S", "Q", "U", "A", "R", "E", "_", "B", "R", "A", "C", "K", "E", "T", ">">>,
    <<"\\", "]">>>>,
  <<<<"<", "L", "E", "F", "T", "_", "C", "U", "R", "L", "Y", "_", "B", "R", "A", "C", "K", "E", "T", ">">>,
    <<"\\", "{">>>>,
  <<<<"<", "R", "I", "G", "H", "T", "_", "C", "U", "R", "L", "Y", "_", "B", "R", "A", "C", "K", "E", "T", ">">>,
    <<"\\", "}">>>>
>>

FOUND_TAGS == <<
  <<<<"<", "F", "O", "U", "N", "D", "1", ">">>, <<"\\", "g", "<", "1", ">">>>>,
  <<<<"<", "F", "O", "U", "N", "D", "2", ">">>, <<"\\", "g", "<", "2", ">">>>>,
  <<<<"<", "F", "O", "U", "N", "D", "3", ">">>, <<"\\", "g", "<", "3", ">">>>>,
  <<<<"<", "F", "O", "U", "N", "D", "4", ">">>, <<"\\", "g", "<", "4", ">">>>>,
  <<<<"<", "F", "O", "U", "N", "D", "5", ">">>, <<"\\", "g", "<", "5", ">">>>>,
  <<<<"<", "F", "O", "U", "N", "D", "6", ">">>, <<"\\", "g", "<", "6", ">">>>>,
  <<<<"<", "F", "O", "U", "N", "D", "7", ">">>, <<"\\", "g", "<", "7", ">">>>>,
  <<<<"<", "F", "O", "U", "N", "D", "8", ">">>, <<"\\", "g", "<", "8", ">">>>>,
  <<<<"<", "F", "O", "U", "N", "D", "9", ">">>, <<"\\", "g", "<", "9", ">">>>>
>>

\* for tag, uni in table.items(): if tag in text: text = text.replace(tag, uni)
RECURSIVE ReplaceTags(_, _, _)
ReplaceTags(text, table, k) ==
  IF k > Len(table) \/ ~InSeq("<", text) THEN text  \* every tag starts with "<"
  ELSE IF Contains(text, table[k][1])
  THEN ReplaceTags(StrReplace(text, table[k][1], table[k][2]), table, k + 1)
  ELSE ReplaceTags(text, table, k + 1)

HexDigits == <<"0", "1", "2", "3", "4", "5", "6", "7", "8", "9",
               "a", "b", "c", "d", "e", "f">>
UpperHex == <<"A", "B", "C", "D", "E", "F">>
IsHex(c) == InSeq(c, HexDigits) \/ InSeq(c, UpperHex)
HexVal(c) == IF InSeq(c, HexDigits) THEN IndexOf(c, HexDigits) - 1
             ELSE IndexOf(c, UpperHex) + 9

RECURSIVE HexInt(_, _, _, _)
HexInt(text, i, n, acc) ==
  IF n = 0 THEN acc ELSE HexInt(text, i + 1, n - 1, acc * 16 + HexVal(text[i]))

\* chr(n) for the code points the model names; every other code point is
\* the placeholder character "U+FFFD".
CodeTable == <<
  <<9, "\t">>,
  <<10, "\n">>,
  <<13, "\r">>,
  <<26, "U+001A">>,
  <<27, "U+001B">>,
  <<32, " ">>,
  <<33, "!">>,
  <<35, "#">>,
  <<36, "$">>,
  <<37, "%">>,
  <<38, "&">>,
  <<39, "'">>,
  <<40, "(">>,
  <<41, ")">>,
  <<42, "*">>,
  <<43, "+">>,
  <<44, ",">>,
  <<45, "-">>,
  <<46, ".">>,
  <<47, "/">>,
  <<48, "0">>,
  <<49, "1">>,
  <<50, "2">>,
  <<51, "3">>,
  <<52, "4">>,
  <<53, "5">>,
  <<54, "6">>,
  <<55, "7">>,
  <<56, "8">>,
  <<57, "9">>,
  <<58, ":">>,
  <<59, ";">>,
  <<60, "<">>,
  <<61, "=">>,
  <<62, ">">>,
  <<63, "?">>,
  <<64, "@">>,
  <<65, "A">>,
  <<66, "B">>,
  <<67, "C">>,
  <<68, "D">>,
  <<69, "E">>,
  <<70, "F">>,
  <<71, "G">>,
  <<72, "H">>,
  <<73, "I">>,
  <<74, "J">>,
  <<75, "K">>,
  <<76, "L">>,
  <<77, "M">>,
  <<78, "N">>,
  <<79, "O">>,
  <<80, "P">>,
  <<81, "Q">>,
  <<82, "R">>,
  <<83, "S">>,
  <<84, "T">>,
  <<85, "U">>,
  <<86, "V">>,
  <<87, "W">>,
  <<88, "X">>,
  <<89, "Y">>,
  <<90, "Z">>,
  <<91, "[">>,
  <<92, "\\">>,
  <<93, "]">>,
  <<94, "^">>,
  <<95, "_">>,
  <<97, "a">>,
  <<98, "b">>,
  <<99, "c">>,
  <<100, "d">>,
  <<101, "e">>,
  <<102, "f">>,
  <<103, "g">>,
  <<104, "h">>,
  <<105, "i">>,
  <<106, "j">>,
  <<107, "k">>,
  <<108, "l">>,
  <<109, "m">>,
  <<110, "n">>,
  <<111, "o">>,
  <<112, "p">>,
  <<113, "q">>,
  <<114, "r">>,
  <<115, "s">>,
  <<116, "t">>,
  <<117, "u">>,
  <<118, "v">>,
  <<119, "w">>,
  <<120, "x">>,
  <<121, "y">>,
  <<122, "z">>,
  <<123, "{">>,
  <<124, "|">>,
  <<125, "}">>,
  <<126, "~">>,
  <<160, "U+00A0">>,
  <<169, "U+00A9">>,
  <<174, "U+00AE">>,
  <<8194, "U+2002">>,
  <<8195, "U+2003">>,
  <<8196, "U+2004">>,
  <<8197, "U+2005">>,
  <<8198, "U+2006">>,
  <<8199, "U+2007">>,
  <<8200, "U+2008">>,
  <<8201, "U+2009">>,
  <<8202, "U+200A">>,
  <<8203, "U+200B">>,
  <<8209, "U+2011">>,
  <<8211, "U+2013">>,
  <<8212, "U+2014">>,
  <<8226, "U+2022">>,
  <<8230, "U+2026">>,
  <<8232, "U+2028">>,
  <<8239, "U+202F">>,
  <<8482, "U+2122">>
>>

chr(n) ==
  IF \E k \in 1..Len(CodeTable) : CodeTable[k][1] = n
  THEN CodeTable[CHOOSE k \in 1..Len(CodeTable) : CodeTable[k][1] = n][2]
  ELSE "U+FFFD"

\* re.sub(r"\\<letter>([0-9A-Fa-f]{n})", lambda m: chr(int(m.group(1), 16)), text)
RECURSIVE DecodeHex(_, _, _, _)
DecodeHex(text, letter, n, i) ==
  IF i > Len(text) THEN <<>>
  ELSE IF /\ text[i] = "\\"
          /\ i + 1 + n <= Len(text)
          /\ text[i + 1] = letter
          /\ \A k \in 1..n : IsHex(text[i + 1 + k])
       THEN <<chr(HexInt(text, i + 2, n, 0))>> \o DecodeHex(text, letter, n, i + 2 + n)
       ELSE <<text[i]>> \o DecodeHex(text, letter, n, i + 1)

\* unicodedata.lookup for the names the model knows; any other name raises.
UnicodeNames == <<
  <<<<"B", "U", "L", "L", "E", "T">>, "U+2022">>,
  <<<<"L", "A", "T", "I", "N", " ", "S", "M", "A", "L", "L", " ", "L", "E", "T", "T", "E", "R", " ", "A">>, "a">>
>>

NameKnown(name) == \E k \in 1..Len(UnicodeNames) : UnicodeNames[k][1] = name
unicodedata_lookup(name) ==
  UnicodeNames[CHOOSE k \in 1..Len(UnicodeNames) : UnicodeNames[k][1] = name][2]

\* Index of the first "}" at or after i, or 0.
RECURSIVE FindClose(_, _)
FindClose(text, i) ==
  IF i > Len(text) THEN 0 ELSE IF text[i] = "}" THEN i ELSE FindClose(text, i + 1)

\* re.sub(r"\\N\{([^}]+)\}", lambda m: unicodedata.lookup(m.group(1)), text)
RECURSIVE DecodeNames(_, _)
DecodeNames(text, i) ==
  IF i > Len(text) THEN [ok |-> TRUE, text |-> <<>>]
  ELSE LET c == FindClose(text, i + 3)
       IN  IF /\ text[i] = "\\"
              /\ i + 2 <= Len(text)
              /\ text[i + 1] = "N" /\ text[i + 2] = "{"
              /\ c > i + 3
           THEN IF NameKnown(SubSeq(text, i + 3, c - 1))
                THEN LET r == DecodeNames(text, c + 1)
                     IN  [ok |-> r.ok,
                          text |-> <<unicodedata_lookup(SubSeq(text, i + 3, c - 1))>> \o r.text]
                ELSE [ok |-> FALSE, text |-> <<>>]
           ELSE LET r == DecodeNames(text, i + 1)
                IN  [ok |-> r.ok, text |-> <<text[i]>> \o r.text]

\* normalize_input with the replacement-only steps applied in both modes.
normalize_input_any_mode(text, is_pattern) ==
  IF text = <<>> THEN [ok |-> TRUE, text |-> text]
  ELSE LET t1 == ReplaceTags(text, TAGS, 1)
           t2 == ReplaceTags(t1, FOUND_TAGS, 1)
           t3 == DecodeHex(DecodeHex(DecodeHex(t2, "u", 4, 1), "x", 2, 1), "U", 8, 1)
           t4 == DecodeNames(t3, 1)
       IN  IF ~t4.ok THEN [ok |-> FALSE, text |-> <<>>]
           ELSE [ok |-> TRUE,
                 text |-> StrReplace(StrReplace(StrReplace(t4.text,
                            <<"\\", "t">>, <<"\t">>),
                            <<"\\", "n">>, <<"\n">>),
                            <<"\\", "r">>, <<"\r">>)]

normalize_input(text, is_pattern) ==
  IF text = <<>> THEN [ok |-> TRUE, text |-> text]
  ELSE LET t1 == ReplaceTags(text, TAGS, 1)
           t2 == IF ~is_pattern THEN ReplaceTags(t1, FOUND_TAGS, 1) ELSE t1
           t3 == DecodeHex(DecodeHex(DecodeHex(t2, "u", 4, 1), "x", 2, 1), "U", 8, 1)
           t4 == DecodeNames(t3, 1)
       IN  IF ~t4.ok THEN [ok |-> FALSE, text |-> <<>>]
           ELSE IF ~is_pattern
           THEN [ok |-> TRUE,
                 text |-> StrReplace(StrReplace(StrReplace(t4.text,
                            <<"\\", "t">>, <<"\t">>),
                            <<"\\", "n">>, <<"\n">>),
                            <<"\\", "r">>, <<"\r">>)]
           ELSE t4

(***************************************************************************)
(* The regular-expression engine (Python's re) on the pattern fragment    *)
(* used here: literal characters, backslash-escaped characters, a         *)
(* character followed by "*", and capture groups.                         *)
(***************************************************************************)
NoneSeq == <<"<None>">>

NoneRegex == [ok |-> FALSE, src |-> NoneSeq, atoms |-> <<>>, groups |-> <<>>]

EscChar(c) == IF c = "t" THEN "\t" ELSE IF c = "n" THEN "\n" ELSE IF c = "r" THEN "\r" ELSE c

\* re.compile: parse p from index i; open is the stack of unclosed groups.
RECURSIVE ParsePattern(_, _, _, _, _)
ParsePattern(p, i, atoms, groups, open) ==
  IF i > Len(p)
  THEN IF open # <<>> THEN NoneRegex
       ELSE [ok |-> TRUE, src |-> p, atoms |-> atoms, groups |-> groups]
  ELSE IF p[i] = "("
  THEN ParsePattern(p, i + 1, atoms,
                    Append(groups, [s |-> Len(atoms) + 1, e |-> Len(atoms)]),
                    <<Len(groups) + 1>> \o open)
  ELSE IF p[i] = ")"
  THEN IF open = <<>> THEN NoneRegex
       ELSE ParsePattern(p, i + 1, atoms,
                         [groups EXCEPT ![Head(open)].e = Len(atoms)],
                         Tail(open))
  ELSE IF p[i] = "*"
  THEN IF atoms = <<>> \/ atoms[Len(atoms)].star \/ (i > 1 /\ p[i - 1] \in {"(", ")"})
       THEN NoneRegex
       ELSE ParsePattern(p, i + 1, [atoms EXCEPT ![Len(atoms)].star = TRUE],
                         groups, open)
  ELSE IF p[i] = "\\"
  THEN IF i = Len(p) THEN NoneRegex
       ELSE ParsePattern(p, i + 2,
                         Append(atoms, [ch |-> EscChar(p[i + 1]), star |-> FALSE]),
                         groups, open)
  ELSE ParsePattern(p, i + 1, Append(atoms, [ch |-> p[i], star |-> FALSE]),
                    groups, open)

re_compile(p) == ParsePattern(p, 1, <<>>, <<>>, <<>>)

\* Length of the run of character c in text starting at offset pos.
RECURSIVE Run(_, _, _)
Run(text, pos, c) ==
  IF pos < Len(text) /\ text[pos + 1] = c THEN 1 + Run(text, pos + 1, c) ELSE 0

\* Backtracking matcher: the offsets before each atom and the end offset,
\* or <<>> when atoms k.. do not match at pos.  With must_advance a match
\* that ends where the scan started is rejected.
RECURSIVE MatchAtoms(_, _, _, _, _, _)
RECURSIVE TryStar(_, _, _, _, _, _, _)
MatchAtoms(atoms, text, k, pos, start, must_advance) ==
  IF k > Len(atoms)
  THEN IF must_advance /\ pos = start THEN <<>> ELSE <<pos>>
  ELSE IF atoms[k].star
  THEN TryStar(atoms, text, k, pos, Run(text, pos, atoms[k].ch), start, must_advance)
  ELSE IF pos < Len(text) /\ text[pos + 1] = atoms[k].ch
  THEN LET r == MatchAtoms(atoms, text, k + 1, pos + 1, start, must_advance)
       IN  IF r = <<>> THEN <<>> ELSE <<pos>> \o r
  ELSE <<>>

TryStar(atoms, text, k, pos, n, start, must_advance) ==
  IF n < 0 THEN <<>>
  ELSE LET r == MatchAtoms(atoms, text, k + 1, pos + n, start, must_advance)
       IN  IF r # <<>> THEN <<pos>> \o r
           ELSE TryStar(atoms, text, k, pos, n - 1, start, must_advance)

NoMatch == [found |-> FALSE, s |-> 0, e |-> 0, b |-> <<>>]

\* rg.search(text, pos): the leftmost match starting at or after pos.
RECURSIVE SearchFrom(_, _, _, _, _)
SearchFrom(rg, text, cand, start, must_advance) ==
  IF cand > Len(text) THEN NoMatch
  ELSE LET b == MatchAtoms(rg.atoms, text, 1, cand, start,
                           must_advance /\ cand = start)
       IN  IF b # <<>>
           THEN [found |-> TRUE, s |-> cand, e |-> b[Len(b)], b |-> b]
           ELSE SearchFrom(rg, text, cand + 1, start, must_advance)

Min(a, b) == IF a < b THEN a ELSE b

\* rg.search scanning from the offset after pos.
rg_search_skip(rg, text, pos) ==
  SearchFrom(rg, text, Min(pos + 1, Len(text)), Min(pos + 1, Len(text)), FALSE)

rg_search(rg, text, pos) ==
  SearchFrom(rg, text, Min(pos, Len(text)), Min(pos, Len(text)), FALSE)

\* rg.finditer(text): the non-overlapping matches from offset 0.
RECURSIVE FindIterFrom(_, _, _, _)
FindIterFrom(rg, text, pos, must_advance) ==
  LET m == SearchFrom(rg, text, pos, pos, must_advance)
  IN  IF ~m.found THEN <<>>
      ELSE <<m>> \o FindIterFrom(rg, text, m.e, m.e = m.s)

rg_finditer(rg, text) == FindIterFrom(rg, text, 0, FALSE)

\* The text captured by group g of match m.
GroupText(rg, text, m, g) ==
  IF g = 0 THEN Slice(text, m.s, m.e)
  ELSE Slice(text, m.b[rg.groups[g].s], m.b[rg.groups[g].e + 1])

Digits == <<"0", "1", "2", "3", "4", "5", "6", "7", "8", "9">>
IsDigit(c) == InSeq(c, Digits)
DigitVal(c) == IndexOf(c, Digits) - 1

ExpandError == [ok |-> FALSE, text |-> <<>>]

\* match.expand(template): \g<n> and \n are group references, \\ is a
\* backslash, \t \n \r are control characters; any other escape and a
\* reference to a group the pattern does not have raise re.error.
RECURSIVE ExpandFrom(_, _, _, _, _, _)
ExpandFrom(rg, text, m, t, i, acc) ==
  IF i > Len(t) THEN [ok |-> TRUE, text |-> acc]
  ELSE IF t[i] # "\\" THEN ExpandFrom(rg, text, m, t, i + 1, Append(acc, t[i]))
  ELSE IF i = Len(t) THEN ExpandError
  ELSE IF t[i + 1] = "g"
  THEN IF /\ i + 4 <= Len(t)
          /\ t[i + 2] = "<" /\ IsDigit(t[i + 3]) /\ t[i + 4] = ">"
          /\ DigitVal(t[i + 3]) <= Len(rg.groups)
       THEN ExpandFrom(rg, text, m, t, i + 5,
                       acc \o GroupText(rg, text, m, DigitVal(t[i + 3])))
       ELSE ExpandError
  ELSE IF IsDigit(t[i + 1])
  THEN IF DigitVal(t[i + 1]) >= 1 /\ DigitVal(t[i + 1]) <= Len(rg.groups)
       THEN ExpandFrom(rg, text, m, t, i + 2,
                       acc \o GroupText(rg, text, m, DigitVal(t[i + 1])))
       ELSE ExpandError
  ELSE IF t[i + 1] = "\\" THEN ExpandFrom(rg, text, m, t, i + 2, Append(acc, "\\"))
  ELSE IF t[i + 1] \in {"t", "n", "r"}
  THEN ExpandFrom(rg, text, m, t, i + 2, Append(acc, EscChar(t[i + 1])))
  ELSE ExpandError

match_expand(rg, text, m, template) == ExpandFrom(rg, text, m, template, 1, <<>>)

\* rg.sub(repl, text) with repl(m) = m.expand(replacement), counting calls.
\* ok = FALSE when an expansion raised; count includes the raising call.
RECURSIVE SubFrom(_, _, _, _, _, _, _)
SubFrom(rg, text, replacement, pos, must_advance, acc, count) ==
  LET m == SearchFrom(rg, text, pos, pos, must_advance)
  IN  IF ~m.found
      THEN [ok |-> TRUE, text |-> acc \o Slice(text, pos, Len(text)), count |-> count]
      ELSE LET x == match_expand(rg, text, m, replacement)
           IN  IF ~x.ok THEN [ok |-> FALSE, text |-> text, count |-> count + 1]
               ELSE SubFrom(rg, text, replacement, m.e, m.e = m.s,
                            acc \o Slice(text, pos, m.s) \o x.text, count + 1)

\* rg.sub replacing the first match only, as rg.sub(repl, full_text, 1).
rg_sub_first(rg, text, replacement, count) ==
  LET m == SearchFrom(rg, text, 0, 0, FALSE)
      x == match_expand(rg, text, m, replacement)
  IN  IF ~m.found THEN [ok |-> TRUE, text |-> text, count |-> count]
      ELSE IF ~x.ok THEN [ok |-> FALSE, text |-> text, count |-> count + 1]
      ELSE [ok |-> TRUE,
            text |-> Slice(text, 0, m.s) \o x.text \o Slice(text, m.e, Len(text)),
            count |-> count + 1]

rg_sub(rg, text, replacement, count) ==
  SubFrom(rg, text, replacement, 0, FALSE, <<>>, count)

(***************************************************************************)
(* The host document (Scribus) and the dialog state.                       *)
(***************************************************************************)
VARIABLES
  objects,       \* scribus.getAllObjects(): the page objects, in order
  storyText,     \* story root -> text of the story (scribus.getAllText)
  selection,     \* the selected objects, first selected first
  fw,            \* the "Find what" field (raw text)
  cht,           \* the "Change to" field (raw text)
  searchCombo,   \* the "Search" combo box: "Document" or "Story"
  search_state,  \* the search session
  data,          \* the persisted store queries.json: key -> list of texts
  buttons,       \* the enabled buttons, as set by update_buttons_state
  q,             \* the "Query" combo box: the name of the selected query
  last           \* what the last operation reported to the UI shell

vars == <<objects, storyText, selection, fw, cht, searchCombo, search_state,
          data, buttons, q, last>>

docVars == <<objects, storyText, selection>>

\* A document: text frame f1; an image; text frame f2 linked to f3.
ObjectType(o) == IF o = "img" THEN "ImageFrame" ELSE "TextFrame"
PrevLinkedFrame(o) == IF o = "f3" THEN "f2" ELSE "<None>"
FirstLinkedFrame(o) == IF o = "f3" THEN "f2" ELSE o

DocShapes == {<<>>, <<"f1">>, <<"f1", "img", "f2", "f3">>}

TextChars == {"a", "b"}

RECURSIVE TextsUpTo(_)
TextsUpTo(n) ==
  IF n = 0 THEN {<<>>}
  ELSE LET T == TextsUpTo(n - 1)
       IN  T \cup {Append(t, c) : t \in {u \in T : Len(u) = n - 1}, c \in TextChars}

InitTexts == TextsUpTo(MaxInitLen)

\* The (Find what, Change to) texts the user may have typed.
Typed == {
  <<<<>>, <<"a">>>>,
  <<<<"(">>, <<"a">>>>,
  <<<<"a">>, <<>>>>,
  <<<<"a">>, <<"a", "b">>>>,
  <<<<"a", "b">>, <<"a">>>>,
  <<<<"a", "b">>, <<"<", "F", "O", "U", "N", "D", "1", ">">>>>,
  <<<<"(", "a", ")", "b">>, <<"<", "F", "O", "U", "N", "D", "1", ">">>>>,
  <<<<"b", "*">>, <<"a">>>>,
  <<<<"b", "*">>, <<>>>>,
  <<<<"a", "*", "b">>, <<"a">>>>,
  <<<<"\\", "N", "{", "X", "}">>, <<"a">>>>,
  <<<<"a">>, <<"\\", "N", "{", "X", "}">>>>
}

RECURSIVE FilterRoots(_, _)
FilterRoots(objs, k) ==
  IF k > Len(objs) THEN <<>>
  ELSE IF ObjectType(objs[k]) # "TextFrame" THEN FilterRoots(objs, k + 1)
  ELSE IF PrevLinkedFrame(objs[k]) = "<None>"
  THEN <<objs[k]>> \o FilterRoots(objs, k + 1)
  ELSE FilterRoots(objs, k + 1)

get_story_roots_for_document == FilterRoots(objects, 1)

\* get_current_story_root without the fall-back to the first story root.
get_current_story_root_no_fallback ==
  IF Len(selection) >= 1 /\ ObjectType(selection[1]) = "TextFrame"
  THEN FirstLinkedFrame(selection[1])
  ELSE "<None>"

get_current_story_root ==
  IF Len(selection) >= 1 /\ ObjectType(selection[1]) = "TextFrame"
  THEN FirstLinkedFrame(selection[1])
  ELSE LET roots == get_story_roots_for_document
       IN  IF roots # <<>> THEN roots[1] ELSE "<None>"

has_story_selected ==
  Len(selection) >= 1 /\ ObjectType(selection[1]) = "TextFrame"

compute_search_items ==
  IF has_story_selected THEN {"Document", "Story"} ELSE {"Document"}

getAllText(frame) == storyText[FirstLinkedFrame(frame)]

selectObject(sel, frame) == IF InSeq(frame, sel) THEN sel ELSE Append(sel, frame)

\* scribus.selectText(start, length) + deleteText() and insertText(text, pos)
DeleteText(text, start, length) ==
  Slice(text, 0, start) \o Slice(text, start + length, Len(text))
InsertText(text, new, pos) ==
  Slice(text, 0, pos) \o new \o Slice(text, pos, Len(text))

(***************************************************************************)
(* The persisted store and the histories.                                  *)
(***************************************************************************)
HISTORY_LIMIT == 10

\* The dict that json.load returns and json.dump writes: its items
\* <<key, value>> in insertion order.
EmptyStore == <<>>

\* key in d
DictHas(d, key) == \E i \in 1..Len(d) : d[i][1] = key

DictIndex(d, key) == CHOOSE i \in 1..Len(d) : d[i][1] = key

\* d.get(key, default)
DictGet(d, key, default) == IF DictHas(d, key) THEN d[DictIndex(d, key)][2] ELSE default

\* d[key] = value: an existing key keeps its place, a new one comes last.
DictSet(d, key, value) ==
  IF DictHas(d, key)
  THEN [i \in 1..Len(d) |-> IF d[i][1] = key THEN <<key, value>> ELSE d[i]]
  ELSE Append(d, <<key, value>>)

\* del d[key]
DictDel(d, key) == RemoveAt(d, DictIndex(d, key))

\* The keys of the two history lists, and the entry that get_all_query_names
\* appends to the names.
HistoryKeys == {"_find_what_history", "_change_to_history"}
CUSTOM == "[Custom]"

\* The names of the store's entries, character by character.
Spelling ==
  [k \in {"", "q1", "q2", "_q", CUSTOM} \cup HistoryKeys |->
     CASE k = "" -> <<>>
       [] k = "q1" -> <<"q", "1">>
       [] k = "q2" -> <<"q", "2">>
       [] k = "_q" -> <<"_", "q">>
       [] k = CUSTOM -> <<"[", "C", "u", "s", "t", "o", "m", "]">>
       [] k = "_find_what_history" ->
            <<"_", "f", "i", "n", "d", "_", "w", "h", "a", "t", "_",
              "h", "i", "s", "t", "o", "r", "y">>
       [] k = "_change_to_history" ->
            <<"_", "c", "h", "a", "n", "g", "e", "_", "t", "o", "_",
              "h", "i", "s", "t", "o", "r", "y">>]

\* k.startswith(prefix)
startswith(k, prefix) == IsPrefixAt(Spelling[k], prefix, 1)

\* The list comprehension of get_all_query_names over the items from i on;
\* every value of the store is a list here.
RECURSIVE QueryNamesFrom(_, _)
QueryNamesFrom(d, i) ==
  IF i > Len(d) THEN <<>>
  ELSE (IF ~startswith(d[i][1], <<"_">>) /\ Len(d[i][2]) = 2
        THEN <<d[i][1]>> ELSE <<>>)
       \o QueryNamesFrom(d, i + 1)

get_all_query_names(d) == Append(QueryNamesFrom(d, 1), CUSTOM)

\* update_history storing the list without lst[:10].
update_history_no_limit(d, key, value) ==
  LET lst == DictGet(d, key, <<>>)
      v == Strip(value)
  IN  DictSet(d, key,
              IF v # <<>>
              THEN <<v>> \o (IF InSeq(v, lst) THEN RemoveAt(lst, IndexOf(v, lst)) ELSE lst)
              ELSE lst)

update_history(d, key, value) ==
  LET lst == DictGet(d, key, <<>>)
      v == Strip(value)
      lst2 == IF v # <<>>
              THEN <<v>> \o (IF InSeq(v, lst) THEN RemoveAt(lst, IndexOf(v, lst)) ELSE lst)
              ELSE lst
  IN  DictSet(d, key, SubSeq(lst2, 1, Min(Len(lst2), HISTORY_LIMIT)))

(***************************************************************************)
(* The search session.                                                     *)
(***************************************************************************)
ResetState ==
  [mode |-> "<None>", pattern |-> NoneSeq, regex |-> NoneRegex, frames |-> <<>>,
   story_index |-> 0, char_index |-> 0, found_count |-> 0,
   story_text_cache |-> <<>>]

\* search_state_reset leaving the compiled pattern in the session.
search_state_reset_keep_regex == [ResetState EXCEPT !.regex = search_state.regex]

search_state_reset == ResetState

\* init_search_state_if_needed keeping an open session whatever the scope
\* and the pattern.
init_search_state_if_needed_keep(st) ==
  LET mode == searchCombo
  IN  IF st.frames # <<>> THEN st
      ELSE LET frames == IF mode = "Story"
                         THEN (IF get_current_story_root # "<None>"
                               THEN <<get_current_story_root>> ELSE <<>>)
                         ELSE get_story_roots_for_document
           IN  [st EXCEPT !.mode = mode, !.pattern = normalize_input(fw, TRUE).text,
                          !.frames = frames, !.story_index = 0, !.char_index = 0]

init_search_state_if_needed(st) ==
  LET pattern == normalize_input(fw, TRUE).text
      mode == searchCombo
      st1 == IF st.mode # mode \/ st.pattern # pattern
             THEN [search_state_reset EXCEPT !.mode = mode, !.pattern = pattern]
             ELSE st
  IN  IF st1.frames # <<>> THEN st1
      ELSE LET frames == IF mode = "Story"
                         THEN (IF get_current_story_root # "<None>"
                               THEN <<get_current_story_root>> ELSE <<>>)
                         ELSE get_story_roots_for_document
           IN  [st1 EXCEPT !.frames = frames, !.story_index = 0, !.char_index = 0]

\* The buttons update_buttons_state enables when Find what holds fw_t.
EnabledButtons(fw_t, found) ==
  IF fw_t = <<>> THEN {}
  ELSE IF ~found THEN {"find_next", "change_all"}
  ELSE {"find_next", "change", "change_all", "change_find"}

update_buttons_state(found) == EnabledButtons(fw, found)

Report(op, res, frame, s, e, count) ==
  [op |-> op, res |-> res, frame |-> frame, s |-> s, e |-> e, count |-> count]

\* The number of characters in the stories of the roots from the k-th on.
RECURSIVE TotalLen(_, _, _)
TotalLen(store, roots, k) ==
  IF k > Len(roots) THEN 0 ELSE Len(store[roots[k]]) + TotalLen(store, roots, k + 1)

Init ==
  /\ objects \in DocShapes
  /\ storyText \in [{objects[k] : k \in {j \in 1..Len(objects) :
                        ObjectType(objects[j]) = "TextFrame"
                        /\ PrevLinkedFrame(objects[j]) = "<None>"}} -> InitTexts]
  /\ TotalLen(storyText, get_story_roots_for_document, 1) <= MaxInitLen + 1
  /\ selection \in {<<>>} \cup {<<objects[k]>> : k \in 1..Len(objects)}
  /\ \E t \in Typed : fw = t[1] /\ cht = t[2]
  /\ searchCombo \in compute_search_items
  /\ search_state = ResetState
  /\ data = EmptyStore
  /\ buttons = update_buttons_state(FALSE)
  /\ q = CUSTOM
  /\ last = Report("init", "None", "<None>", 0, 0, 0)

(***************************************************************************)
(* What a handler leaves behind: the session, the story texts, the         *)
(* selection, the persisted store, the enabled buttons and the report.     *)
(***************************************************************************)
Outcome(st, store, sel, d, btn, report) ==
  [st |-> st, store |-> store, sel |-> sel, data |-> d, buttons |-> btn,
   report |-> report]

TextsBounded(store) == \A f \in DOMAIN store : Len(store[f]) <= MaxTextLen

Apply(r) ==
  /\ TextsBounded(r.store)
  /\ search_state' = r.st
  /\ storyText' = r.store
  /\ selection' = r.sel
  /\ data' = r.data
  /\ buttons' = r.buttons
  /\ last' = r.report
  /\ UNCHANGED <<objects, fw, cht, searchCombo, q>>

(***************************************************************************)
(* FIND NEXT                                                               *)
(***************************************************************************)
\* The while loop of on_find_next.  rfail: the frames whose getAllText raises.
\* The find loop moving to the next story without resetting char_index.
RECURSIVE FindLoop_keep_offset(_, _, _)
FindLoop_keep_offset(st, rg, rfail) ==
  IF st.story_index >= Len(st.frames)
  THEN [st |-> st, hit |-> NoMatch, frame |-> "<None>"]
  ELSE LET frame == st.frames[st.story_index + 1]
           cache == IF frame \in DOMAIN st.story_text_cache
                    THEN st.story_text_cache
                    ELSE st.story_text_cache @@
                         (frame :> (IF frame \in rfail THEN <<>> ELSE getAllText(frame)))
           full_text == cache[frame]
           m == rg_search(rg, full_text, st.char_index)
           stc == [st EXCEPT !.story_text_cache = cache]
       IN  IF m.found /\ m.e - m.s > 0
           THEN [st |-> [stc EXCEPT !.char_index = m.e, !.found_count = @ + 1],
                 hit |-> m, frame |-> frame]
           ELSE FindLoop_keep_offset([stc EXCEPT !.story_index = @ + 1], rg, rfail)

\* The find loop without the test for a zero-length match.
RECURSIVE FindLoop_yield_empty(_, _, _)
FindLoop_yield_empty(st, rg, rfail) ==
  IF st.story_index >= Len(st.frames)
  THEN [st |-> st, hit |-> NoMatch, frame |-> "<None>"]
  ELSE LET frame == st.frames[st.story_index + 1]
           cache == IF frame \in DOMAIN st.story_text_cache
                    THEN st.story_text_cache
                    ELSE st.story_text_cache @@
                         (frame :> (IF frame \in rfail THEN <<>> ELSE getAllText(frame)))
           full_text == cache[frame]
           m == rg_search(rg, full_text, st.char_index)
           stc == [st EXCEPT !.story_text_cache = cache]
       IN  IF m.found
           THEN [st |-> [stc EXCEPT !.char_index = m.e, !.found_count = @ + 1],
                 hit |-> m, frame |-> frame]
           ELSE FindLoop_yield_empty([stc EXCEPT !.story_index = @ + 1,
                                                 !.char_index = 0], rg, rfail)

RECURSIVE FindLoop(_, _, _)
FindLoop(st, rg, rfail) ==
  IF st.story_index >= Len(st.frames)
  THEN [st |-> st, hit |-> NoMatch, frame |-> "<None>"]
  ELSE LET frame == st.frames[st.story_index + 1]
           cache == IF frame \in DOMAIN st.story_text_cache
                    THEN st.story_text_cache
                    ELSE st.story_text_cache @@
                         (frame :> (IF frame \in rfail THEN <<>> ELSE getAllText(frame)))
           full_text == cache[frame]
           m == rg_search(rg, full_text, st.char_index)
           stc == [st EXCEPT !.story_text_cache = cache]
       IN  IF m.found /\ m.e - m.s > 0
           THEN [st |-> [stc EXCEPT !.char_index = m.e, !.found_count = @ + 1],
                 hit |-> m, frame |-> frame]
           ELSE FindLoop([stc EXCEPT !.story_index = @ + 1, !.char_index = 0],
                         rg, rfail)

\* The "Compile regex" block shared by the handlers: the session with the
\* compiled pattern stored, or ok = FALSE when re.compile raises re.error.
Recompile(st, pattern) ==
  IF st.regex = NoneRegex \/ st.pattern # pattern
  THEN [ok |-> re_compile(pattern).ok,
        st |-> [st EXCEPT !.regex = re_compile(pattern), !.pattern = pattern]]
  ELSE [ok |-> TRUE, st |-> st]

FindNextReport(r) ==
  IF r.hit.found
  THEN Outcome(r.st, storyText, <<r.frame>>,
               update_history(update_history(data, "_find_what_history", fw),
                              "_change_to_history", cht),
               update_buttons_state(TRUE),
               Report("find_next", "Match", r.frame, r.hit.s, r.hit.e,
                      r.st.found_count))
  ELSE Outcome(search_state_reset, storyText, <<>>, data,
               update_buttons_state(FALSE),
               Report("find_next", "Exhausted", "<None>", 0, 0, r.st.found_count))

\* on_find_next after init_search_state_if_needed; rg is the local regex.
FindNextFrames(st2, rg, rfail) ==
  IF st2.frames = <<>>
  THEN Outcome(st2, storyText, selection, data, update_buttons_state(FALSE),
               Report("find_next", "NoFrames", "<None>", 0, 0, 0))
  ELSE FindNextReport(FindLoop(st2, rg, rfail))

FindNextCompiled(c, rfail) ==
  IF ~c.ok
  THEN Outcome(search_state_reset, storyText, selection, data,
               update_buttons_state(FALSE),
               Report("find_next", "CompileError", "<None>", 0, 0, 0))
  ELSE FindNextFrames(init_search_state_if_needed(c.st), c.st.regex, rfail)

FindNextNormalized(n, rfail) ==
  IF ~n.ok
  THEN \* unicodedata.lookup raised KeyError: nothing catches it
       Outcome(search_state, storyText, selection, data, buttons,
               Report("find_next", "Uncaught", "<None>", 0, 0, 0))
  ELSE IF n.text = <<>>
  THEN Outcome(search_state_reset, storyText, selection, data,
               update_buttons_state(FALSE),
               Report("find_next", "EmptyPattern", "<None>", 0, 0, 0))
  ELSE FindNextCompiled(Recompile(search_state, n.text), rfail)

find_next(rfail) == FindNextNormalized(normalize_input(fw, TRUE), rfail)

on_find_next(rfail) == \E r \in {find_next(rfail)} : Apply(r)

(***************************************************************************)
(* CHANGE                                                                  *)
(***************************************************************************)
\* The first match of rg.finditer(full_text) that ends at gend.
FirstEndingAt(matches, gend) ==
  IF \E k \in 1..Len(matches) : matches[k].e = gend
  THEN matches[CHOOSE k \in 1..Len(matches) :
                 matches[k].e = gend /\ \A j \in 1..(k - 1) : matches[j].e # gend]
  ELSE NoMatch

\* The warning path also calling search_state_reset().
Warn_reset(op, res, st, store, sel) ==
  Outcome(search_state_reset, store, sel, data, buttons,
          Report(op, res, "<None>", 0, 0, 0))

Warn(op, res, st, store, sel) ==
  Outcome(st, store, sel, data, buttons, Report(op, res, "<None>", 0, 0, 0))

\* ChangeStore leaving char_index at the start of the replacement.
ChangeStore_offset_at_start(op, failAt, reselect, st3, frame, gstart, old_len, new_text) ==
  IF failAt = "selectObject" THEN Warn(op, "StoreError", st3, storyText, selection)
  ELSE IF \/ failAt \in {"selectText", "deleteText"}
          \/ gstart + old_len > Len(storyText[FirstLinkedFrame(frame)])
  THEN Warn(op, "StoreError", st3, storyText, selectObject(selection, frame))
  ELSE IF failAt = "insertText"
  THEN Warn(op, "StoreError", st3,
            [storyText EXCEPT ![FirstLinkedFrame(frame)] =
               DeleteText(@, gstart, old_len)],
            selectObject(selection, frame))
  ELSE IF reselect /\ failAt = "reselectText"
  THEN Warn(op, "StoreError", st3,
            [storyText EXCEPT ![FirstLinkedFrame(frame)] =
               InsertText(DeleteText(@, gstart, old_len), new_text, gstart)],
            selectObject(selection, frame))
  ELSE Outcome([st3 EXCEPT !.char_index = gstart],
               [storyText EXCEPT ![FirstLinkedFrame(frame)] =
                  InsertText(DeleteText(@, gstart, old_len), new_text, gstart)],
               selectObject(selection, frame), data,
               IF reselect THEN update_buttons_state(FALSE) ELSE buttons,
               Report(op, "Replaced", frame, gstart, gstart + Len(new_text),
                      st3.found_count))

\* The select/delete/insert(/reselect) sequence pushed to Scribus and the
\* cursor update.  failAt: the Scribus call that raises ("none": no call
\* raises); reselect: the sequence ends with selectText (on_change only).
\* selectText also raises (IndexError) for a range that ends past the end
\* of the story, which a text cache that differs from the story can ask for.
ChangeStore(op, failAt, reselect, st3, frame, gstart, old_len, new_text) ==
  IF failAt = "selectObject" THEN Warn(op, "StoreError", st3, storyText, selection)
  ELSE IF \/ failAt \in {"selectText", "deleteText"}
          \/ gstart + old_len > Len(storyText[FirstLinkedFrame(frame)])
  THEN Warn(op, "StoreError", st3, storyText, selectObject(selection, frame))
  ELSE IF failAt = "insertText"
  THEN Warn(op, "StoreError", st3,
            [storyText EXCEPT ![FirstLinkedFrame(frame)] =
               DeleteText(@, gstart, old_len)],
            selectObject(selection, frame))
  ELSE IF reselect /\ failAt = "reselectText"
  THEN Warn(op, "StoreError", st3,
            [storyText EXCEPT ![FirstLinkedFrame(frame)] =
               InsertText(DeleteText(@, gstart, old_len), new_text, gstart)],
            selectObject(selection, frame))
  ELSE Outcome([st3 EXCEPT !.char_index = gstart + Len(new_text)],
               [storyText EXCEPT ![FirstLinkedFrame(frame)] =
                  InsertText(DeleteText(@, gstart, old_len), new_text, gstart)],
               selectObject(selection, frame), data,
               IF reselect THEN update_buttons_state(FALSE) ELSE buttons,
               Report(op, "Replaced", frame, gstart, gstart + Len(new_text),
                      st3.found_count))

\* ChangeExpand replacing the match by the empty text when m.expand raises.
ChangeExpand_delete_on_error(op, failAt, reselect, st2, frame, full_text, last_match, x) ==
  ChangeStore(op, failAt, reselect,
              [st2 EXCEPT !.story_text_cache[frame] =
                 Slice(full_text, 0, last_match.s) \o x.text
                 \o Slice(full_text, last_match.e, Len(full_text))],
              frame, last_match.s, last_match.e - last_match.s, x.text)

\* The expansion and the update of the text cache.
\* ChangeExpand pushing the replacement to Scribus without updating the text
\* cache.
ChangeExpand_stale_cache(op, failAt, reselect, st2, frame, full_text, last_match, x) ==
  IF ~x.ok THEN Warn(op, "ExpansionError", st2, storyText, selection)
  ELSE ChangeStore(op, failAt, reselect, st2,
                   frame, last_match.s, last_match.e - last_match.s, x.text)

ChangeExpand(op, failAt, reselect, st2, frame, full_text, last_match, x) ==
  IF ~x.ok THEN Warn(op, "ExpansionError", st2, storyText, selection)
  ELSE ChangeStore(op, failAt, reselect,
                   [st2 EXCEPT !.story_text_cache[frame] =
                      Slice(full_text, 0, last_match.s) \o x.text
                      \o Slice(full_text, last_match.e, Len(full_text))],
                   frame, last_match.s, last_match.e - last_match.s, x.text)

ChangeMatch(op, failAt, reselect, replacement, st2, frame, full_text, last_match) ==
  IF ~last_match.found THEN Warn(op, "NoActiveMatch", st2, storyText, selection)
  ELSE ChangeExpand(op, failAt, reselect, st2, frame, full_text, last_match,
                    match_expand(st2.regex, full_text, last_match, replacement))

\* ChangeText without the test of char_index against 0.
ChangeText_no_offset_check(op, failAt, reselect, replacement, st2, frame, full_text) ==
  IF full_text = <<>> THEN Warn(op, "NoText", st2, storyText, selection)
  ELSE ChangeMatch(op, failAt, reselect, replacement, st2, frame, full_text,
                   FirstEndingAt(rg_finditer(st2.regex, full_text),
                                 Min(st2.char_index, Len(full_text))))

\* From the text of the current story on: the match that ends at char_index.
ChangeText(op, failAt, reselect, replacement, st2, frame, full_text) ==
  IF full_text = <<>> THEN Warn(op, "NoText", st2, storyText, selection)
  ELSE IF st2.char_index <= 0
  THEN Warn(op, "NoActiveMatch", st2, storyText, selection)
  ELSE ChangeMatch(op, failAt, reselect, replacement, st2, frame, full_text,
                   FirstEndingAt(rg_finditer(st2.regex, full_text),
                                 Min(st2.char_index, Len(full_text))))

\* "Text story from cache or reloaded".
ChangeFrame(op, failAt, reselect, replacement, st1, frame) ==
  IF frame \in DOMAIN st1.story_text_cache
  THEN ChangeText(op, failAt, reselect, replacement, st1, frame,
                  st1.story_text_cache[frame])
  ELSE ChangeText(op, failAt, reselect, replacement,
                  [st1 EXCEPT !.story_text_cache = @ @@ (frame :> getAllText(frame))],
                  frame, getAllText(frame))

ChangeCompiled(op, failAt, reselect, replacement, c) ==
  IF ~c.ok THEN Warn(op, "CompileError", search_state, storyText, selection)
  ELSE IF c.st.frames = <<>>
  THEN Warn(op, "NoActiveMatch", c.st, storyText, selection)
  ELSE IF c.st.story_index < 0 \/ c.st.story_index >= Len(c.st.frames)
  THEN Warn(op, "NoActiveMatch", c.st, storyText, selection)
  ELSE ChangeFrame(op, failAt, reselect, replacement, c.st,
                   c.st.frames[c.st.story_index + 1])

ChangeNormalized(op, failAt, reselect, np, nr) ==
  IF ~np.ok \/ ~nr.ok THEN Warn(op, "Uncaught", search_state, storyText, selection)
  ELSE IF np.text = <<>>
  THEN Warn(op, "EmptyPattern", search_state, storyText, selection)
  ELSE ChangeCompiled(op, failAt, reselect, nr.text, Recompile(search_state, np.text))

\* on_change, and on_change_find up to its search loop.
change(op, failAt, reselect) ==
  ChangeNormalized(op, failAt, reselect,
                   normalize_input(fw, TRUE), normalize_input(cht, FALSE))

on_change(failAt) == \E r \in {change("change", failAt, TRUE)} : Apply(r)

(***************************************************************************)
(* CHANGE ALL                                                              *)
(***************************************************************************)
\* The for loop of on_change_all from frame k on.  rfail, wfail: the frames
\* whose getAllText, resp. setText, raises.  ok = FALSE: m.expand raised
\* inside rg.sub and the exception leaves the loop.
RECURSIVE ChangeAllLoop(_, _, _, _, _, _, _, _, _)
ChangeAllLoop(rg, replacement, frames, k, store, sel, total, rfail, wfail) ==
  IF k > Len(frames) THEN [ok |-> TRUE, store |-> store, sel |-> sel, total |-> total]
  ELSE LET frame == frames[k]
           root == FirstLinkedFrame(frame)
           full_text == IF frame \in rfail THEN <<>> ELSE store[root]
           r == rg_sub(rg, full_text, replacement, total)
       IN  IF full_text = <<>>
           THEN ChangeAllLoop(rg, replacement, frames, k + 1, store, sel, total,
                              rfail, wfail)
           ELSE IF ~r.ok
           THEN [ok |-> FALSE, store |-> store, sel |-> sel, total |-> r.count]
           ELSE ChangeAllLoop(rg, replacement, frames, k + 1,
                              IF frame \in wfail THEN store
                              ELSE [store EXCEPT ![root] = r.text],
                              selectObject(sel, frame), r.count, rfail, wfail)

ChangeAllReturn(res, sel) ==
  Outcome(search_state, storyText, sel, data, buttons,
          Report("change_all", res, "<None>", 0, 0, 0))

\* The report of Change all holds, as e, the number of stories in frames.
ChangeAllReport(r, frames) ==
  IF ~r.ok
  THEN \* m.expand raised re.error inside rg.sub: nothing catches it
       Outcome(search_state, r.store, r.sel, data, buttons,
               Report("change_all", "Uncaught", "<None>", 0, Len(frames), r.total))
  ELSE Outcome(search_state_reset, r.store, <<>>, data,
               update_buttons_state(FALSE),
               Report("change_all", "ReplacedAll", "<None>", 0, Len(frames), r.total))

\* The frames of the scope selected in searchCombo, whatever the session's.
ChangeAllFrames_requested(effective_mode) ==
  IF search_state.mode = searchCombo /\ search_state.frames # <<>>
  THEN search_state.frames
  ELSE IF searchCombo = "Story"
  THEN (IF get_current_story_root # "<None>"
        THEN <<get_current_story_root>> ELSE <<>>)
  ELSE get_story_roots_for_document

\* The scope and the frames on_change_all works on.
ChangeAllFrames(effective_mode) ==
  IF search_state.mode = effective_mode /\ search_state.frames # <<>>
  THEN search_state.frames
  ELSE IF effective_mode = "Story"
  THEN (IF get_current_story_root # "<None>"
        THEN <<get_current_story_root>> ELSE <<>>)
  ELSE get_story_roots_for_document

ChangeAllCompiled(frames, rg, replacement, rfail, wfail) ==
  IF frames = <<>> THEN ChangeAllReturn("NoStory", selection)
  ELSE IF ~rg.ok THEN ChangeAllReturn("CompileError", <<>>)
  ELSE ChangeAllReport(ChangeAllLoop(rg, replacement, frames, 1, storyText, <<>>,
                                     0, rfail, wfail), frames)

ChangeAllNormalized(np, nr, rfail, wfail) ==
  IF ~np.ok \/ ~nr.ok THEN ChangeAllReturn("Uncaught", selection)
  ELSE IF np.text = <<>> THEN ChangeAllReturn("EmptyPattern", selection)
  ELSE ChangeAllCompiled(
         ChangeAllFrames(IF search_state.mode # "<None>" THEN search_state.mode
                         ELSE searchCombo),
         re_compile(np.text), nr.text, rfail, wfail)

change_all(rfail, wfail) ==
  ChangeAllNormalized(normalize_input(fw, TRUE), normalize_input(cht, FALSE),
                      rfail, wfail)

on_change_all(rfail, wfail) == \E r \in {change_all(rfail, wfail)} : Apply(r)

(***************************************************************************)
(* CHANGE/FIND                                                             *)
(***************************************************************************)
\* The loop of on_change_find searching the current container from offset 0.
RECURSIVE ChangeFindLoop_from_start(_, _, _, _)
ChangeFindLoop_from_start(st, rg, store, rfail) ==
  IF st.story_index >= Len(st.frames)
  THEN [st |-> st, hit |-> NoMatch, frame |-> "<None>"]
  ELSE LET frame == st.frames[st.story_index + 1]
           cache == IF frame \in DOMAIN st.story_text_cache
                    THEN st.story_text_cache
                    ELSE st.story_text_cache @@
                         (frame :> (IF frame \in rfail THEN <<>>
                                    ELSE store[FirstLinkedFrame(frame)]))
           txt == cache[frame]
           m == rg_search(rg, txt, 0)
           stc == [st EXCEPT !.story_text_cache = cache]
       IN  IF m.found
           THEN [st |-> [stc EXCEPT !.char_index = m.e, !.found_count = @ + 1],
                 hit |-> m, frame |-> frame]
           ELSE ChangeFindLoop_from_start(
                  [stc EXCEPT !.story_index = @ + 1, !.char_index = 0],
                  rg, store, rfail)

\* The while loop of on_change_find.
RECURSIVE ChangeFindLoop(_, _, _, _)
ChangeFindLoop(st, rg, store, rfail) ==
  IF st.story_index >= Len(st.frames)
  THEN [st |-> st, hit |-> NoMatch, frame |-> "<None>"]
  ELSE LET frame == st.frames[st.story_index + 1]
           cache == IF frame \in DOMAIN st.story_text_cache
                    THEN st.story_text_cache
                    ELSE st.story_text_cache @@
                         (frame :> (IF frame \in rfail THEN <<>>
                                    ELSE store[FirstLinkedFrame(frame)]))
           txt == cache[frame]
           i == IF st.char_index < 0 \/ st.char_index > Len(txt) THEN 0
                ELSE st.char_index
           m == rg_search(rg, txt, i)
           stc == [st EXCEPT !.story_text_cache = cache]
       IN  IF m.found
           THEN [st |-> [stc EXCEPT !.char_index = m.e, !.found_count = @ + 1],
                 hit |-> m, frame |-> frame]
           ELSE ChangeFindLoop([stc EXCEPT !.story_index = @ + 1, !.char_index = 0],
                               rg, store, rfail)

ChangeFindReport(c, r) ==
  IF r.hit.found
  THEN Outcome(r.st, c.store, <<r.frame>>, data, update_buttons_state(TRUE),
               Report("change_find", "Match", r.frame, r.hit.s, r.hit.e,
                      r.st.found_count))
  ELSE Outcome(search_state_reset, c.store, <<>>, data,
               update_buttons_state(FALSE),
               Report("change_find", "Exhausted", "<None>", 0, 0,
                      r.st.found_count))

ChangeFindAfter(c, rfail) ==
  IF c.report.res # "Replaced" THEN c
  ELSE ChangeFindReport(c, ChangeFindLoop(c.st, c.st.regex, c.store, rfail))

change_find(failAt, rfail) ==
  ChangeFindAfter(change("change_find", failAt, FALSE), rfail)

on_change_find(failAt, rfail) == \E r \in {change_find(failAt, rfail)} : Apply(r)

(***************************************************************************)
(* The search combo box.                                                   *)
(***************************************************************************)
\* refresh_search_items, then the user picks one of the listed scopes.
\* select_search resetting the session when the selected scope changes.
select_search_reset(mode) ==
  /\ mode \in compute_search_items
  /\ searchCombo' = mode
  /\ search_state' = IF mode # searchCombo THEN search_state_reset ELSE search_state
  /\ last' = Report("select_search", "None", "<None>", 0, 0, 0)
  /\ UNCHANGED <<docVars, fw, cht, data, buttons, q>>

select_search(mode) ==
  /\ mode \in compute_search_items
  /\ searchCombo' = mode
  /\ last' = Report("select_search", "None", "<None>", 0, 0, 0)
  /\ UNCHANGED <<docVars, fw, cht, search_state, data, buttons, q>>

(***************************************************************************)
(* The entry fields.                                                       *)
(***************************************************************************)
\* fw_cht_changed updating the buttons without resetting the session.
fw_cht_changed_no_reset(t) ==
  /\ <<t[1], t[2]>> # <<fw, cht>>
  /\ fw' = t[1]
  /\ cht' = t[2]
  /\ buttons' = EnabledButtons(t[1], FALSE)
  /\ last' = Report("fw_cht_changed", "None", "<None>", 0, 0, 0)
  /\ UNCHANGED <<docVars, searchCombo, data, search_state, q>>

\* The user edits Find what and Change to: every write to either variable
\* runs the trace fw_cht_changed, which resets the session and updates the
\* buttons from the new texts.
fw_cht_changed(t) ==
  /\ <<t[1], t[2]>> # <<fw, cht>>
  /\ fw' = t[1]
  /\ cht' = t[2]
  /\ search_state' = search_state_reset
  /\ buttons' = EnabledButtons(t[1], FALSE)
  /\ last' = Report("fw_cht_changed", "None", "<None>", 0, 0, 0)
  /\ UNCHANGED <<docVars, searchCombo, data, q>>

\* The texts the fields are edited to: a pattern that does not compile and
\* two that do.
Edited == {
  <<<<"(">>, <<"a">>>>,
  <<<<"a">>, <<"a", "b">>>>,
  <<<<"b", "*">>, <<"a">>>>
}

FwChtChanged == \E t \in Edited : fw_cht_changed(t)

\* The buttons invoke the handlers; a disabled button invokes nothing.
FindNext == "find_next" \in buttons /\ on_find_next({})
Change == "change" \in buttons /\ on_change("none")
ChangeAll == "change_all" \in buttons /\ on_change_all({}, {})
ChangeFind == "change_find" \in buttons /\ on_change_find("none", {})
SelectSearch == \E mode \in {"Document", "Story"} : select_search(mode)

Next ==
  \/ FindNext
  \/ Change
  \/ ChangeAll
  \/ ChangeFind
  \/ SelectSearch

Spec == Init /\ [][Next]_vars


\* Successive Find next calls with no other operation in between.
(***************************************************************************)
(* The saved queries.                                                      *)
(***************************************************************************)
\* "Save query": name is what the user enters in the askstring dialog
\* ("": nothing entered, or the dialog cancelled).
on_save_query(name) ==
  /\ data' = IF name = "" THEN data
             ELSE update_history(
                    update_history(DictSet(data, name, <<fw, cht>>),
                                   "_find_what_history", fw),
                    "_change_to_history", cht)
  /\ q' = IF name = "" THEN q ELSE name
  /\ last' = Report("save_query", IF name = "" THEN "NoName" ELSE "Saved",
                    name, 0, 0, 0)
  /\ UNCHANGED <<docVars, fw, cht, searchCombo, search_state, buttons>>

\* on_delete_query removing the selected entry and those stored after it.
delete_query_truncating(confirm) ==
  LET cur == q
      gone == cur # CUSTOM /\ DictHas(data, cur) /\ confirm
  IN  /\ data' = IF gone THEN SubSeq(data, 1, DictIndex(data, cur) - 1) ELSE data
      /\ q' = IF gone THEN CUSTOM ELSE q
      /\ last' = Report("delete_query",
                        IF cur = CUSTOM THEN "Custom"
                        ELSE IF ~DictHas(data, cur) THEN "Absent"
                        ELSE IF ~confirm THEN "Declined" ELSE "Deleted",
                        cur, 0, 0, 0)
      /\ UNCHANGED <<docVars, fw, cht, searchCombo, search_state, buttons>>

\* "Delete query" on the entry selected in the Query combo box; confirm is
\* the user's answer to "Delete this query?".
on_delete_query(confirm) ==
  LET cur == q
      gone == cur # CUSTOM /\ DictHas(data, cur) /\ confirm
  IN  /\ data' = IF gone THEN DictDel(data, cur) ELSE data
      /\ q' = IF gone THEN CUSTOM ELSE q
      /\ last' = Report("delete_query",
                        IF cur = CUSTOM THEN "Custom"
                        ELSE IF ~DictHas(data, cur) THEN "Absent"
                        ELSE IF ~confirm THEN "Declined" ELSE "Deleted",
                        cur, 0, 0, 0)
      /\ UNCHANGED <<docVars, fw, cht, searchCombo, search_state, buttons>>

\* The user picks cur in the Query combo box, among the names that
\* get_all_query_names() lists.
update_from_query(cur) ==
  LET lst == DictGet(data, cur, <<>>)
      loads == cur # CUSTOM /\ Len(lst) = 2
  IN  /\ InSeq(cur, get_all_query_names(data))
      /\ q' = cur
      /\ fw' = IF loads THEN lst[1] ELSE fw
      /\ cht' = IF loads THEN lst[2] ELSE cht
      /\ search_state' = search_state_reset
      /\ buttons' = EnabledButtons(IF loads THEN lst[1] ELSE fw, FALSE)
      /\ last' = Report("update_from_query", "None", cur, 0, 0, 0)
      /\ UNCHANGED <<docVars, searchCombo, data>>

\* queries.json is a file: an entry can disappear from it while the dialog
\* is open (it is read again at every use), whatever the combo box shows.
entry_removed_on_disk(name) ==
  /\ DictHas(data, name)
  /\ data' = DictDel(data, name)
  /\ last' = Report("entry_removed_on_disk", "None", name, 0, 0, 0)
  /\ UNCHANGED <<docVars, fw, cht, searchCombo, search_state, buttons, q>>

\* The names the user enters when saving.
QueryNames == {"", "q1", "q2", "_q", CUSTOM}

SaveQuery == \E name \in QueryNames : on_save_query(name)
DeleteQuery == \E confirm \in BOOLEAN : on_delete_query(confirm)
SelectQuery == \E cur \in QueryNames : update_from_query(cur)
EntryRemovedOnDisk == \E name \in QueryNames : entry_removed_on_disk(name)

\* The dialog opens on a document without text, with queries.json empty or
\* holding an entry that is not a pair.
InitRepo ==
  /\ objects = <<>>
  /\ storyText = <<>>
  /\ selection = <<>>
  /\ \E t \in {<<<<"a">>, <<"b">>>>, <<<<"a">>, <<>>>>} : fw = t[1] /\ cht = t[2]
  /\ searchCombo = "Document"
  /\ search_state = ResetState
  /\ data \in {EmptyStore, <<<<"q2", <<<<"b">>>>>>>>}
  /\ buttons = update_buttons_state(FALSE)
  /\ q = CUSTOM
  /\ last = Report("init", "None", "<None>", 0, 0, 0)

NextRepo == SaveQuery \/ DeleteQuery \/ SelectQuery \/ EntryRemovedOnDisk
SpecRepo == InitRepo /\ [][NextRepo]_vars

\* The dialog with its entry fields edited between the calls.
NextEdit == Next \/ FwChtChanged
InitEdit == Init /\ <<fw, cht>> \in Edited
SpecEdit == InitEdit /\ [][NextEdit]_vars

\* Change all with the Text Store failing: getAllText raises for the frames
\* of rfail, the write-back (selectObject .. layoutTextChain) for those of
\* wfail.
StoryRoots ==
  {get_story_roots_for_document[k] : k \in 1..Len(get_story_roots_for_document)}

\* No failure, or one container whose read or whose write fails.
Failures ==
  {<<{}, {}>>} \cup {<<{f}, {}>> : f \in StoryRoots}
  \cup {<<{}, {f}>> : f \in StoryRoots}

ChangeAllFailing ==
  /\ "change_all" \in buttons
  /\ \E x \in Failures : on_change_all(x[1], x[2])

NextFail == FindNext \/ ChangeAllFailing \/ SelectSearch
SpecFail == Init /\ [][NextFail]_vars

NextFind == FindNext

SpecFind == Init /\ [][NextFind]_vars

(***************************************************************************)
(* Properties.                                                             *)
(***************************************************************************)
\* The pattern the dialog holds, compiled, and its non-overlapping matches
\* in the story of root f.
TypedRegex == re_compile(normalize_input(fw, TRUE).text)
StoryMatches(f) == rg_finditer(TypedRegex, storyText[f])
OnlyNonEmptyMatches(f) ==
  \A k \in 1..Len(StoryMatches(f)) : StoryMatches(f)[k].e > StoryMatches(f)[k].s

\* The containers of the session: those of the open session, else those the
\* selected scope resolves to.
SessionContainers ==
  IF search_state.frames # <<>> THEN search_state.frames
  ELSE IF searchCombo = "Document" THEN get_story_roots_for_document
  ELSE IF get_current_story_root # "<None>" THEN <<get_current_story_root>>
  ELSE <<>>

\* All matches of the containers cs, container by container.
RECURSIVE MatchesInOrder(_, _)
MatchesInOrder(cs, k) ==
  IF k > Len(cs) THEN <<>>
  ELSE [j \in 1..Len(StoryMatches(cs[k])) |->
          <<cs[k], StoryMatches(cs[k])[j].s, StoryMatches(cs[k])[j].e>>]
       \o MatchesInOrder(cs, k + 1)

\* C1: with a single container and a pattern whose matches are all
\* non-empty, the k-th successive Find next yields the k-th leftmost
\* non-overlapping match of the text, starting at or after the previous
\* match's end, and the call after the last match reports Exhausted with
\* the number of matches yielded.
C1_Step ==
  ( /\ last'.op = "find_next"
    /\ TypedRegex.ok
    /\ Len(SessionContainers) = 1
    /\ OnlyNonEmptyMatches(SessionContainers[1]) )
  => LET M == StoryMatches(SessionContainers[1])
     IN  \/ /\ last'.res = "Match"
            /\ last'.count = search_state.found_count + 1
            /\ last'.count <= Len(M)
            /\ last'.frame = SessionContainers[1]
            /\ last'.s = M[last'.count].s
            /\ last'.e = M[last'.count].e
            /\ last'.s >= search_state.char_index
            /\ search_state'.char_index = last'.e
         \/ /\ last'.res = "Exhausted"
            /\ last'.count = Len(M)
            /\ search_state.found_count = Len(M)

C1_CursorOrdering == [][C1_Step]_vars

C1_Witness ==
  /\ last.op = "find_next" /\ last.res = "Exhausted" /\ last.count = 2
  /\ Len(get_story_roots_for_document) = 1

\* C2: over several containers Find next yields the matches container by
\* container in list order: the k-th yield is the k-th match of the
\* containers taken in order, the container index never decreases, and
\* exhaustion reports the number of matches of all containers.
C2_Step ==
  ( /\ last'.op = "find_next"
    /\ TypedRegex.ok
    /\ Len(SessionContainers) >= 2
    /\ \A k \in 1..Len(SessionContainers) : OnlyNonEmptyMatches(SessionContainers[k]) )
  => LET All == MatchesInOrder(SessionContainers, 1)
     IN  \/ /\ last'.res = "Match"
            /\ last'.count = search_state.found_count + 1
            /\ last'.count <= Len(All)
            /\ <<last'.frame, last'.s, last'.e>> = All[last'.count]
            /\ search_state'.story_index >= search_state.story_index
            /\ search_state'.frames[search_state'.story_index + 1] = last'.frame
            /\ (search_state'.story_index > search_state.story_index
                  => last'.s = StoryMatches(last'.frame)[1].s)
         \/ /\ last'.res = "Exhausted"
            /\ last'.count = Len(All)

C2_MultiContainerOrdering == [][C2_Step]_vars

C2_Witness ==
  /\ last.op = "find_next" /\ last.res = "Exhausted" /\ last.count >= 2
  /\ Len(get_story_roots_for_document) = 2 /\ searchCombo = "Document"
  /\ \A k \in 1..2 : StoryMatches(get_story_roots_for_document[k]) # <<>>


\* The Change to text as the handlers pass it to the regex engine.
TypedReplacement == normalize_input(cht, FALSE).text

\* The text T with the range [s, e) replaced by x.
Spliced(T, s, e, x) == Slice(T, 0, s) \o x \o Slice(T, e, Len(T))

\* The expansion of the replacement for the match of T that starts at s.
ExpansionAt(T, s) ==
  match_expand(TypedRegex, T, rg_search(TypedRegex, T, s), TypedReplacement).text

\* C3: when Find next has just yielded the match (s, e) of a container with
\* text T, a successful Change makes that container's text
\* T[0..s) + expansion + T[e..), in the document and in the cache, and sets
\* char_index to s + length(expansion).
C3_Step ==
  ( /\ last.op = "find_next" /\ last.res = "Match"
    /\ last'.op = "change" /\ last'.res = "Replaced" )
  => LET f == last.frame
         T == storyText[f]
         x == ExpansionAt(T, last.s)
     IN  /\ storyText'[f] = Spliced(T, last.s, last.e, x)
         /\ search_state'.story_text_cache[f] = Spliced(T, last.s, last.e, x)
         /\ search_state'.char_index = last.s + Len(x)

C3_ReplaceAtCursor == [][C3_Step]_vars


\* The text T with the matches M[1..k] of the dialog's pattern, taken from
\* the last to the first, each replaced by its expansion.
RECURSIVE SpliceMatches(_, _, _, _)
SpliceMatches(T0, T, M, k) ==
  IF k = 0 THEN T
  ELSE SpliceMatches(T0,
         Spliced(T, M[k].s, M[k].e,
                 match_expand(TypedRegex, T0, M[k], TypedReplacement).text),
         M, k - 1)

\* Every leftmost non-overlapping match of the story of root f replaced.
AllReplaced(f) ==
  SpliceMatches(storyText[f], storyText[f], StoryMatches(f), Len(StoryMatches(f)))

RECURSIVE SumMatches(_, _, _)
SumMatches(cs, k, skipEmpty) ==
  IF k > Len(cs) THEN 0
  ELSE (IF skipEmpty /\ storyText[cs[k]] = <<>> THEN 0 ELSE Len(StoryMatches(cs[k])))
       + SumMatches(cs, k + 1, skipEmpty)

\* A successful Change all whose scope is not in question: the session is
\* Idle or was opened on the scope now selected, and a Story scope has its
\* story (the session's, or the selected text frame's).
ChangeAllInScope ==
  /\ last'.op = "change_all" /\ last'.res = "ReplacedAll"
  /\ search_state.mode \in {"<None>", searchCombo}
  /\ (searchCombo = "Story" /\ search_state.frames = <<>>) => has_story_selected

\* C4 as stated: Change all replaces, in every container of the scope, every
\* leftmost non-overlapping match by its expansion, leaves every other
\* container unchanged, and reports the total number of matches replaced.
C4_StepAsStated ==
  ChangeAllInScope =>
    /\ \A f \in DOMAIN storyText :
         storyText'[f] = IF InSeq(f, SessionContainers) THEN AllReplaced(f)
                         ELSE storyText[f]
    /\ last'.count = SumMatches(SessionContainers, 1, FALSE)

C4_AsStated == [][C4_StepAsStated]_vars

\* C4 amended: the same for every container of the scope whose text is not
\* empty; a container with empty text is left as it is and counts nothing.
C4_Step ==
  ChangeAllInScope =>
    /\ \A f \in DOMAIN storyText :
         storyText'[f] = IF InSeq(f, SessionContainers) /\ storyText[f] # <<>>
                         THEN AllReplaced(f)
                         ELSE storyText[f]
    /\ last'.count = SumMatches(SessionContainers, 1, TRUE)

C4_ReplaceAll == [][C4_Step]_vars

\* Change all has replaced three matches in two containers.
C4_Witness ==
  /\ last.op = "change_all" /\ last.res = "ReplacedAll" /\ last.count = 3
  /\ Len(get_story_roots_for_document) = 2
  /\ \A f \in DOMAIN storyText : storyText[f] # <<>>


\* The warnings by which on_change and on_change_find refuse a call for
\* lack of an active match: "No active match. Use Find next first.",
\* "No active match to replace." and, when the current story has no text,
\* "No text in current story.".
NoActiveMatchWarnings == {"NoActiveMatch", "NoText"}

\* Change is invoked in a session in which no Find next has yielded a match:
\* the session has no containers, or char_index is 0.
NoYieldYet == search_state.frames = <<>> \/ search_state.char_index = 0

\* C5: Change invoked in a session without a yielded match (no containers,
\* or char_index = 0) fails with a NoActiveMatch warning and leaves the text
\* of every container unchanged.
C5_Step ==
  (last'.op = "change" /\ NoYieldYet)
  => (last'.res \in NoActiveMatchWarnings /\ storyText' = storyText)

C5_NoActiveMatch == [][C5_Step]_vars

\* Change has failed with NoActiveMatch in an open session whose char_index
\* is 0 and whose current container still has text.
C5_Witness ==
  /\ last.op = "change" /\ last.res = "NoActiveMatch"
  /\ search_state.frames # <<>> /\ search_state.char_index = 0
  /\ storyText[search_state.frames[search_state.story_index + 1]] # <<>>

\* Change, or the replace step of Change/Find, has failed for lack of an
\* active match.
FailsNoActiveMatch ==
  last'.op \in {"change", "change_find"} /\ last'.res \in NoActiveMatchWarnings

\* C6: when Change (or the replace step of Change/Find) fails with
\* NoActiveMatch, every field of the search session (mode, pattern, regex,
\* frames, story_index, char_index, found_count, story_text_cache) has the
\* same value after the call as before it.
C6_Step == FailsNoActiveMatch => search_state' = search_state

C6_NoActiveMatchFrame == [][C6_Step]_vars

\* Change/Find has failed with NoActiveMatch in an open session that keeps
\* its position.
C6_Witness ==
  /\ last.op = "change_find" /\ last.res = "NoActiveMatch"
  /\ search_state.frames # <<>> /\ search_state.found_count > 0

(***************************************************************************)
(* The history lists on their own: update_history applied to values typed  *)
(* into the dialog, starting from an empty store.                          *)
(***************************************************************************)
\* Re-recordings of a value already in a list, per behaviour.
MaxRerecord == 1

\* One more distinct value than a list keeps.
HistChars == <<"a", "b", "c", "d", "e", "f", "g", "h", "i", "j", "k">>
HistValue(n) == <<HistChars[n]>>
HistIndex(v) == CHOOSE n \in 1..Len(HistChars) : HistValue(n) = v

\* The value recorded next when a new one is recorded: the values are
\* recorded for the first time in the order of HistChars.
NextFresh(lst) ==
  IF lst = <<>> THEN 1
  ELSE 1 + CHOOSE n \in 1..Len(HistChars) :
             /\ InSeq(HistValue(n), lst)
             /\ \A j \in (n + 1)..Len(HistChars) : ~InSeq(HistValue(j), lst)

InitHist ==
  /\ objects = <<>>
  /\ storyText = <<>>
  /\ selection = <<>>
  /\ fw = <<>>
  /\ cht = <<>>
  /\ searchCombo = "Document"
  /\ search_state = ResetState
  /\ data = EmptyStore
  /\ buttons = update_buttons_state(FALSE)
  /\ q = CUSTOM
  /\ \E key \in HistoryKeys : last = Report("init", "None", key, 0, 0, 0)

\* update_history(key, value) with value the n-th value (n = 0: a blank
\* value), typed with or without surrounding blanks.  The report holds the
\* key, n, and the number of re-recordings so far.  A behaviour records
\* into one of the two lists, the one its first report names.
record_history(key, n, padded) ==
  LET lst == DictGet(data, key, <<>>)
      core == IF n = 0 THEN <<>> ELSE HistValue(n)
      value == IF padded THEN <<" ">> \o core \o <<" ">> ELSE core
      again == n # 0 /\ InSeq(core, lst)
  IN  /\ key = last.frame
      /\ n \in 0..Len(HistChars)
      /\ n # 0 => (again \/ n = NextFresh(lst))
      /\ again => last.count < MaxRerecord
      /\ data' = update_history(data, key, value)
      /\ last' = Report("update_history", "None", key, n, 0,
                        last.count + (IF again THEN 1 ELSE 0))
      /\ UNCHANGED <<docVars, fw, cht, searchCombo, search_state, buttons, q>>

RecordHistory ==
  \E key \in HistoryKeys, n \in 0..Len(HistChars), padded \in BOOLEAN :
    record_history(key, n, padded)

NextHist == RecordHistory

SpecHist == InitHist /\ [][NextHist]_vars

Distinct(s) == \A i, j \in 1..Len(s) : i # j => s[i] # s[j]

\* The n most recent of the values recorded in order up to the h-th.
MostRecent(h, n) == [i \in 1..n |-> HistValue(h - i + 1)]

\* C7: each history list holds at most 10 values, pairwise distinct, the
\* value just recorded first and the others in their previous order; with
\* distinct values recorded only, the list holds the most recent ones (10 of
\* them once 10 are recorded); recording a value already in the list moves
\* it to the front without changing the length.
C7_Step ==
  \A key \in HistoryKeys :
    LET old == DictGet(data, key, <<>>)
        new == DictGet(data', key, <<>>)
        v == HistValue(last'.s)
    IN  /\ Len(new) <= 10
        /\ Distinct(new)
        /\ (last'.op = "update_history" /\ last'.frame # key) => new = old
        /\ (last'.op = "update_history" /\ last'.frame = key /\ last'.s = 0)
             => new = old
        /\ (last'.op = "update_history" /\ last'.frame = key /\ last'.s # 0) =>
             /\ new[1] = v
             /\ InSeq(v, old) =>
                  /\ Len(new) = Len(old)
                  /\ Tail(new) = RemoveAt(old, IndexOf(v, old))
             /\ ~InSeq(v, old) =>
                  Tail(new) = SubSeq(old, 1, Min(Len(old), 9))
        /\ (last'.op = "update_history" /\ last'.count = 0 /\ new # <<>>) =>
             new = MostRecent(HistIndex(new[1]), Min(HistIndex(new[1]), 10))

C7_HistoryBound == [][C7_Step]_vars

\* Eleven distinct values were recorded and one of the kept ones was then
\* recorded again: the list holds ten values, the first recorded one is gone.
C7_Witness ==
  LET lst == DictGet(data, "_find_what_history", <<>>)
  IN  /\ Len(lst) = 10
      /\ ~InSeq(HistValue(1), lst)
      /\ InSeq(HistValue(11), lst)
      /\ lst[1] # HistValue(11)


\* A step inside one session that stays in the same container.
SameSessionSameContainer ==
  /\ search_state.frames # <<>>
  /\ search_state'.frames = search_state.frames
  /\ search_state'.mode = search_state.mode
  /\ search_state'.pattern \in {search_state.pattern, normalize_input(fw, TRUE).text}
  /\ search_state'.story_index = search_state.story_index

\* The cached text of the session's current container.
CurrentText(st) == st.story_text_cache[st.frames[st.story_index + 1]]

\* C8 as stated: char_index never decreases between two consecutive states
\* of one session with the same story_index.
C8_StepAsStated ==
  SameSessionSameContainer => search_state'.char_index >= search_state.char_index

C8_AsStated == [][C8_StepAsStated]_vars

\* C8 amended: within one session and one container, Find next never
\* decreases char_index; Change moves it by exactly the change in length of
\* the container's text (back, when the expansion is shorter than the
\* match), and Change/Find leaves it at or after that position.
C8_Step ==
  SameSessionSameContainer =>
    LET moved == search_state.char_index
                 + Len(CurrentText(search_state')) - Len(CurrentText(search_state))
    IN  /\ last'.op = "find_next" =>
             /\ search_state'.char_index >= search_state.char_index
             /\ CurrentText(search_state') = CurrentText(search_state)
        /\ last'.op = "change" => search_state'.char_index = moved
        /\ last'.op = "change_find" => search_state'.char_index >= moved

C8_OffsetMonotone == [][C8_Step]_vars

\* Change has replaced a match by a shorter text: char_index is back at the
\* start of the container.
C8_Witness ==
  /\ last.op = "change" /\ last.res = "Replaced"
  /\ last.s = 0 /\ last.e = 0 /\ search_state.char_index = 0
  /\ search_state.found_count > 0


\* C9: after every Change all with a non-empty pattern, on every exit path,
\* all session fields are cleared.
C9_Step ==
  (last'.op = "change_all" /\ normalize_input(fw, TRUE).text # <<>>)
  => search_state' = ResetState

C9_ReplaceAllLeavesIdle == [][C9_Step]_vars

\* The containers of a scope, derived from the document and the selection.
ScopeContainers(mode) ==
  IF mode = "Document" THEN get_story_roots_for_document
  ELSE IF get_current_story_root # "<None>" THEN <<get_current_story_root>>
  ELSE <<>>

\* C10 as stated: Change all acts on the scope requested in searchCombo: it
\* uses the session's containers only when the session's scope is the
\* requested one, and no container outside the requested scope is modified.
C10_StepAsStated ==
  (last'.op = "change_all" /\ last'.res = "ReplacedAll") =>
    LET cs == IF search_state.mode = searchCombo /\ search_state.frames # <<>>
              THEN search_state.frames ELSE ScopeContainers(searchCombo)
    IN  \A f \in DOMAIN storyText : ~InSeq(f, cs) => storyText'[f] = storyText[f]

C10_AsStated == [][C10_StepAsStated]_vars

\* C10 amended: Change all acts on the session's scope when the session has
\* one and on the requested scope otherwise: it uses the session's containers
\* when there are any and else derives those of that scope; every container
\* among them with text has all its matches replaced and no other container
\* is modified.
C10_Step ==
  (last'.op = "change_all" /\ last'.res = "ReplacedAll") =>
    LET effective == IF search_state.mode # "<None>" THEN search_state.mode
                     ELSE searchCombo
        cs == IF search_state.frames # <<>> THEN search_state.frames
              ELSE ScopeContainers(effective)
    IN  /\ last'.e = Len(cs)
        /\ \A f \in DOMAIN storyText :
             storyText'[f] = IF InSeq(f, cs) /\ storyText[f] # <<>>
                             THEN AllReplaced(f) ELSE storyText[f]

C10_ReplaceAllScope == [][C10_Step]_vars

\* Change all was invoked with Story requested and has processed the two
\* containers of a session opened on Document.
C10_Witness ==
  /\ last.op = "change_all" /\ last.res = "ReplacedAll"
  /\ searchCombo = "Story" /\ last.e = 2 /\ last.count >= 2

\* Change is invoked where its re-location finds a match in the current
\* container whose expansion raises: the session is open with the cached
\* text of the current container, char_index is the end of a match of that
\* text, and the replacement refers to a group the pattern does not have.
LocatedMatch ==
  FirstEndingAt(rg_finditer(TypedRegex, CurrentText(search_state)),
                Min(search_state.char_index, Len(CurrentText(search_state))))

ExpansionFails ==
  /\ TypedRegex.ok
  /\ search_state.frames # <<>>
  /\ search_state.story_index < Len(search_state.frames)
  /\ search_state.frames[search_state.story_index + 1]
       \in DOMAIN search_state.story_text_cache
  /\ search_state.char_index > 0
  /\ CurrentText(search_state) # <<>>
  /\ LocatedMatch.found
  /\ ~match_expand(TypedRegex, CurrentText(search_state), LocatedMatch,
                   TypedReplacement).ok

\* C11: when Change has located the match and the replacement refers to a
\* capture group the pattern does not have, the call ends with the
\* "Replacement failed" warning and leaves the text of every container, the
\* text cache, story_index, char_index and found_count unchanged.
C11_Step ==
  (last'.op = "change" /\ ExpansionFails) =>
    /\ last'.res = "ExpansionError"
    /\ storyText' = storyText
    /\ search_state'.story_text_cache = search_state.story_text_cache
    /\ search_state'.story_index = search_state.story_index
    /\ search_state'.char_index = search_state.char_index
    /\ search_state'.found_count = search_state.found_count

C11_ExpansionError == [][C11_Step]_vars

\* Change has failed on the expansion after Find next had yielded a match.
C11_Witness ==
  /\ last.op = "change" /\ last.res = "ExpansionError"
  /\ search_state.found_count > 0 /\ search_state.char_index > 0
  /\ CurrentText(search_state) = storyText[search_state.frames[search_state.story_index + 1]]

\* The four operations of the dialog.
Operations == {"find_next", "change", "change_all", "change_find"}

\* Find what holds a non-empty pattern that re.compile rejects.
PatternDoesNotCompile ==
  /\ normalize_input(fw, TRUE).ok
  /\ normalize_input(fw, TRUE).text # <<>>
  /\ ~TypedRegex.ok

\* C12: an operation invoked with a pattern that does not compile ends with
\* a warning ("Invalid regular expression.", "Regex error" or, for Change
\* all on a scope without stories, "No story to process."), changes no
\* container text and leaves every field of the session cleared.
C12_Step ==
  (last'.op \in Operations /\ PatternDoesNotCompile) =>
    /\ last'.res \in {"CompileError", "NoStory"}
    /\ last'.res = "NoStory" => last'.op = "change_all"
    /\ storyText' = storyText
    /\ search_state' = ResetState

C12_CompileFailure == [][C12_Step]_vars

\* Change all has been refused for its pattern after the fields were edited
\* in a session that had yielded a match.
C12_Witness ==
  /\ last.op = "change_all" /\ last.res = "CompileError"
  /\ ~TypedRegex.ok
  /\ DictGet(data, "_find_what_history", <<>>) # <<>>
  /\ search_state = ResetState

\* A text the operation normalizes holds \N{NAME} with a name that
\* unicodedata.lookup does not know: Find what for every operation, Change
\* to for the three replacing ones.
UnknownCodepointName(op) ==
  \/ ~normalize_input(fw, TRUE).ok
  \/ op # "find_next" /\ ~normalize_input(cht, FALSE).ok

\* C13: an operation invoked with an unknown \N{NAME} in the pattern or the
\* replacement ends with a warning naming the error, leaves every field of
\* the session cleared and changes no container text.
C13_Step ==
  (last'.op \in Operations /\ UnknownCodepointName(last'.op)) =>
    /\ last'.res = "UnknownCodepointName"
    /\ search_state' = ResetState
    /\ storyText' = storyText

C13_NormalizationFailure == [][C13_Step]_vars

\* C14: every operation ends by returning a result or a warning: no call of
\* Find next, Change, Change all or Change/Find is left by an exception
\* that nothing catches; in particular not Change all with a replacement
\* that refers to a capture group the pattern does not have.
C14_NoUncaughtError == last.op \in Operations => last.res # "Uncaught"

\* The number of matches in the containers cs[k..] that are in done.
RECURSIVE SumMatchesIn(_, _, _)
SumMatchesIn(cs, k, done) ==
  IF k > Len(cs) THEN 0
  ELSE (IF cs[k] \in done THEN Len(StoryMatches(cs[k])) ELSE 0)
       + SumMatchesIn(cs, k + 1, done)

\* The containers Change all works on (see C10).
ChangeAllContainers ==
  IF search_state.frames # <<>> THEN search_state.frames
  ELSE ScopeContainers(IF search_state.mode # "<None>" THEN search_state.mode
                       ELSE searchCombo)

\* C15: when Change all runs to its end with the read or the write of one
\* container failing, every other container of the scope that has text
\* has all its matches replaced, whatever its place in the list, the failing
\* one keeps its text, and the reported count is the number of matches in
\* the containers that were read and written.
C15_Step ==
  \A x \in Failures :
    ( /\ last'.op = "change_all" /\ last'.res = "ReplacedAll"
      /\ on_change_all(x[1], x[2]) )
    => LET cs == ChangeAllContainers
           done == {f \in DOMAIN storyText :
                      /\ InSeq(f, cs) /\ storyText[f] # <<>>
                      /\ f \notin x[1] \cup x[2]}
       IN  /\ \A f \in DOMAIN storyText :
                storyText'[f] = IF f \in done THEN AllReplaced(f) ELSE storyText[f]
           /\ last'.count = SumMatchesIn(cs, 1, done)

C15_FailureIsolation == [][C15_Step]_vars

\* The position Find next searches from: that of the open session, else the
\* start of the first container of the selected scope.
CursorIndex == IF search_state.frames # <<>> THEN search_state.story_index ELSE 0
CursorOffset == IF search_state.frames # <<>> THEN search_state.char_index ELSE 0
CursorCount == IF search_state.frames # <<>> THEN search_state.found_count ELSE 0

\* The leftmost match of the story of root f at or after offset i.
LeftmostFrom(f, i) == rg_search(TypedRegex, storyText[f], i)

\* The leftmost match at or after the cursor in the current container is
\* empty.
EmptyMatchAtCursor ==
  /\ SessionContainers # <<>>
  /\ CursorIndex < Len(SessionContainers)
  /\ LeftmostFrom(SessionContainers[CursorIndex + 1], CursorOffset).found
  /\ LeftmostFrom(SessionContainers[CursorIndex + 1], CursorOffset).e
       = LeftmostFrom(SessionContainers[CursorIndex + 1], CursorOffset).s

\* The search of container f from offset 0 stops on a non-empty match.
StartsNonEmpty(f) == LeftmostFrom(f, 0).found /\ LeftmostFrom(f, 0).e > LeftmostFrom(f, 0).s

\* C16: Find next never yields a match of length 0 and counts only the
\* matches it yields; when the leftmost match at or after char_index in the
\* current container is empty, the search goes on at offset 0 of the next
\* container: the call yields the leftmost match of the first later container
\* whose search from 0 stops on a non-empty match, or reports Exhausted when
\* there is none, whatever non-empty matches the rest of the current
\* container holds.
C16_Step ==
  (last'.op = "find_next" /\ TypedRegex.ok /\ normalize_input(fw, TRUE).text # <<>>) =>
    /\ last'.res = "Match" =>
         /\ last'.e > last'.s
         /\ search_state'.found_count = CursorCount + 1
         /\ last'.count = CursorCount + 1
    /\ last'.res = "Exhausted" => last'.count = CursorCount
    /\ EmptyMatchAtCursor =>
         LET cs == SessionContainers
             later == {j \in (CursorIndex + 2)..Len(cs) : StartsNonEmpty(cs[j])}
         IN  IF later = {} THEN last'.res = "Exhausted"
             ELSE LET j == CHOOSE i \in later : \A k \in later : i <= k
                  IN  /\ last'.res = "Match"
                      /\ last'.frame = cs[j]
                      /\ search_state'.story_index = j - 1
                      /\ last'.s = LeftmostFrom(cs[j], 0).s
                      /\ last'.e = LeftmostFrom(cs[j], 0).e

C16_ZeroLengthFindNext == [][C16_Step]_vars

\* Find next has yielded the match of the second container after an empty
\* match at the start of the first one, which holds a non-empty match too.
C16_Witness ==
  /\ last.op = "find_next" /\ last.res = "Match" /\ last.count = 1
  /\ Len(search_state.frames) = 2 /\ search_state.story_index = 1
  /\ LeftmostFrom(search_state.frames[1], 0).found
  /\ LeftmostFrom(search_state.frames[1], 0).e = 0
  /\ \E k \in 1..Len(StoryMatches(search_state.frames[1])) :
       StoryMatches(search_state.frames[1])[k].e > StoryMatches(search_state.frames[1])[k].s

\* C17: the find step of Change/Find never yields a match of length 0 and
\* never counts one: a match it yields has e > s, and found_count grows only
\* with such a match.
C17_Step ==
  (last'.op = "change_find" /\ last'.res = "Match") =>
    /\ last'.e > last'.s
    /\ search_state'.found_count = search_state.found_count + 1

C17_ZeroLengthChangeFind == [][C17_Step]_vars

\* What Change leaves behind when invoked in the current state, and what the
\* loop of Find next then does from there.
AfterChange == change("change", "none", TRUE)
AfterChangeThenFind == FindLoop(AfterChange.st, AfterChange.st.regex, {})

\* The pattern has no empty match in the text that remains to be searched
\* after the replacement: the rest of the current container and the later
\* containers.
RECURSIVE NoEmptyMatchFrom(_, _, _)
NoEmptyMatchFrom(st, store, k) ==
  IF k > Len(st.frames) THEN TRUE
  ELSE LET ms == FindIterFrom(TypedRegex, store[st.frames[k]],
                              IF k = st.story_index + 1 THEN st.char_index ELSE 0,
                              FALSE)
       IN  /\ \A j \in 1..Len(ms) : ms[j].e > ms[j].s
           /\ NoEmptyMatchFrom(st, store, k + 1)

ReplaceStepSucceeds ==
  /\ AfterChange.report.res = "Replaced"
  /\ NoEmptyMatchFrom(AfterChange.st, AfterChange.store, AfterChange.st.story_index + 1)

\* C18: where Change would succeed and the pattern has no empty match in
\* the remaining text, Change/Find leaves the container texts, the text
\* cache, frames, story_index, char_index and found_count as Change followed
\* by the loop of Find next (on the session's containers, not re-derived)
\* would, and reports the same match, or Exhausted with the same count and
\* the session reset.
C18_Step ==
  (last'.op = "change_find" /\ ReplaceStepSucceeds) =>
    /\ storyText' = AfterChange.store
    /\ IF AfterChangeThenFind.hit.found
       THEN /\ last'.res = "Match"
            /\ last'.frame = AfterChangeThenFind.frame
            /\ last'.s = AfterChangeThenFind.hit.s
            /\ last'.e = AfterChangeThenFind.hit.e
            /\ search_state'.story_text_cache = AfterChangeThenFind.st.story_text_cache
            /\ search_state'.frames = AfterChangeThenFind.st.frames
            /\ search_state'.story_index = AfterChangeThenFind.st.story_index
            /\ search_state'.char_index = AfterChangeThenFind.st.char_index
            /\ search_state'.found_count = AfterChangeThenFind.st.found_count
       ELSE /\ last'.res = "Exhausted"
            /\ last'.count = AfterChangeThenFind.st.found_count
            /\ search_state' = ResetState

C18_ChangeFindComposition == [][C18_Step]_vars

\* Change/Find has replaced a match in the first container and yielded the
\* match of the second one, with a pattern that never matches the empty
\* string.
C18_Witness ==
  /\ last.op = "change_find" /\ last.res = "Match"
  /\ search_state.story_index = 1 /\ search_state.found_count = 2
  /\ ~rg_search(TypedRegex, <<>>, 0).found
  /\ storyText[search_state.frames[1]] # <<>>

\* The names of the entries of d from the i-th on that are not one of the
\* two history keys and hold a list of two elements, in the store's order.
RECURSIVE PairNamesFrom(_, _)
PairNamesFrom(d, i) ==
  IF i > Len(d) THEN <<>>
  ELSE (IF d[i][1] \notin HistoryKeys /\ Len(d[i][2]) = 2 THEN <<d[i][1]>> ELSE <<>>)
       \o PairNamesFrom(d, i + 1)

\* C19: get_all_query_names returns the names of the stored entries that
\* are not one of the two history keys and hold a pair, followed by
\* "[Custom]", which occurs exactly once, as the last element; after a query
\* is saved under a name other than the two history keys, the list contains
\* that name.
C19_ListNames ==
  LET names == get_all_query_names(data)
  IN  /\ names = Append(PairNamesFrom(data, 1), CUSTOM)
      /\ Cardinality({i \in 1..Len(names) : names[i] = CUSTOM}) = 1
      /\ (last.op = "save_query" /\ last.res = "Saved" /\ last.frame \notin HistoryKeys)
           => InSeq(last.frame, names)

\* The items of d from the i-th on whose key is not name.
RECURSIVE ItemsWithout(_, _, _)
ItemsWithout(d, name, i) ==
  IF i > Len(d) THEN <<>>
  ELSE (IF d[i][1] = name THEN <<>> ELSE <<d[i]>>) \o ItemsWithout(d, name, i + 1)

\* C20: Delete query, once the user has confirmed it where asked, leaves
\* the persisted store as it is when the selected name is "[Custom]" or is
\* not a key of the store; otherwise it removes the entry of that name and
\* keeps every other entry, the two history lists included, with its value
\* and in its place.
C20_Step ==
  (last'.op = "delete_query" /\ last'.res # "Declined") =>
    IF q = CUSTOM \/ ~DictHas(data, q)
    THEN data' = data
    ELSE /\ DictHas(data, q)
         /\ ~DictHas(data', q)
         /\ data' = ItemsWithout(data, q, 1)
         /\ Len(data') = Len(data) - 1

C20_Delete == [][C20_Step]_vars

\* A query has been deleted from a store that keeps another query and the
\* two history lists.
C20_Witness ==
  /\ last.op = "delete_query" /\ last.res = "Deleted"
  /\ ~DictHas(data, last.frame)
  /\ \E k \in {"q1", "q2"} : Len(DictGet(data, k, <<>>)) = 2
  /\ DictGet(data, "_find_what_history", <<>>) # <<>>
  /\ DictGet(data, "_change_to_history", <<>>) # <<>>

\* Find next is invoked with a compiling pattern where it has to derive the
\* containers: the session has none, or was opened on another scope.
DerivesContainers ==
  /\ last'.op = "find_next"
  /\ TypedRegex.ok /\ normalize_input(fw, TRUE).text # <<>>
  /\ (search_state.frames = <<>> \/ search_state.mode # searchCombo)

\* A text frame is the first selected object.
TextFrameSelected == selection # <<>> /\ ObjectType(selection[1]) = "TextFrame"

\* The scope as the claim resolves it: Story is the root of the selected
\* story, or nothing.
ScopeAsStated ==
  IF searchCombo = "Document" THEN get_story_roots_for_document
  ELSE IF TextFrameSelected THEN <<FirstLinkedFrame(selection[1])>>
  ELSE <<>>

\* The scope with Story falling back to the first story root of the
\* document when no text frame is selected.
ScopeWithFallback ==
  IF searchCombo = "Document" THEN get_story_roots_for_document
  ELSE IF TextFrameSelected THEN <<FirstLinkedFrame(selection[1])>>
  ELSE IF get_story_roots_for_document # <<>>
  THEN <<get_story_roots_for_document[1]>>
  ELSE <<>>

\* C21 as stated: Find next deriving its containers gets, for Story, the
\* root of the story of the selection and no container when nothing is
\* selected, and for Document every story root of the document.
C21_StepAsStated ==
  DerivesContainers =>
    /\ (last'.res = "NoFrames") = (ScopeAsStated = <<>>)
    /\ last'.res = "Match" => search_state'.frames = ScopeAsStated

C21_AsStated == [][C21_StepAsStated]_vars

\* C21 amended: the same, with Story resolving to the first story root of
\* the document when no text frame is selected, and to no container only
\* when the document has no story root.
C21_Step ==
  DerivesContainers =>
    /\ (last'.res = "NoFrames") = (ScopeWithFallback = <<>>)
    /\ last'.res = "Match" => search_state'.frames = ScopeWithFallback
    /\ last'.res = "Match" => search_state'.mode = searchCombo

C21_ScopeResolution == [][C21_Step]_vars

\* Find next has opened a Story session on the first story root of a
\* document with two stories and yielded a match there.
C21_Witness ==
  /\ last.op = "find_next" /\ last.res = "Match"
  /\ search_state.mode = "Story" /\ search_state.found_count = 1
  /\ Len(get_story_roots_for_document) = 2
  /\ search_state.frames = <<get_story_roots_for_document[1]>>


(***************************************************************************)
(* The normalizer on its own: normalize_input applied, in either mode, to  *)
(* texts made of the constructs it knows.                                  *)
(***************************************************************************)
\* Constructs per input text.
MaxTokens == 2

\* A construct as typed, what Pattern mode makes of it and what Replacement
\* mode makes of it: plain characters, the two-character escapes, the
\* capture-group placeholders, symbolic tags, numeric escapes and a name.
NormTokens == <<
  [kind |-> "plain", typed |-> <<"a">>, pattern |-> <<"a">>, replacement |-> <<"a">>],
  [kind |-> "plain", typed |-> <<"t">>, pattern |-> <<"t">>, replacement |-> <<"t">>],
  [kind |-> "escape", typed |-> <<"\\", "t">>, pattern |-> <<"\\", "t">>, replacement |-> <<"\t">>],
  [kind |-> "escape", typed |-> <<"\\", "n">>, pattern |-> <<"\\", "n">>, replacement |-> <<"\n">>],
  [kind |-> "escape", typed |-> <<"\\", "r">>, pattern |-> <<"\\", "r">>, replacement |-> <<"\r">>],
  [kind |-> "found", typed |-> <<"<", "F", "O", "U", "N", "D", "1", ">">>,
     pattern |-> <<"<", "F", "O", "U", "N", "D", "1", ">">>,
     replacement |-> <<"\\", "g", "<", "1", ">">>],
  [kind |-> "found", typed |-> <<"<", "F", "O", "U", "N", "D", "9", ">">>,
     pattern |-> <<"<", "F", "O", "U", "N", "D", "9", ">">>,
     replacement |-> <<"\\", "g", "<", "9", ">">>],
  [kind |-> "tag", typed |-> <<"<", "T", "A", "B", ">">>,
     pattern |-> <<"\t">>, replacement |-> <<"\t">>],
  [kind |-> "tag", typed |-> <<"<", "N", "B", "S", "P", ">">>,
     pattern |-> <<"U+00A0">>, replacement |-> <<"U+00A0">>],
  [kind |-> "tag", typed |-> <<"<", "B", "A", "C", "K", "S", "L", "A", "S", "H", ">">>,
     pattern |-> <<"\\">>, replacement |-> <<"\\">>],
  [kind |-> "tag", typed |-> <<"<", "L", "E", "F", "T", "P", "A", "R", "E", "N", "T", "H", "E", "S", "I", "S", ">">>,
     pattern |-> <<"\\", "(">>, replacement |-> <<"\\", "(">>],
  [kind |-> "numeric", typed |-> <<"\\", "x", "4", "1">>,
     pattern |-> <<"A">>, replacement |-> <<"A">>],
  [kind |-> "numeric", typed |-> <<"\\", "x", "5", "c">>,
     pattern |-> <<"\\">>, replacement |-> <<"\\">>],
  [kind |-> "numeric", typed |-> <<"\\", "u", "2", "0", "2", "2">>,
     pattern |-> <<"U+2022">>, replacement |-> <<"U+2022">>],
  [kind |-> "numeric", typed |-> <<"\\", "U", "0", "0", "0", "0", "0", "0", "4", "1">>,
     pattern |-> <<"A">>, replacement |-> <<"A">>],
  [kind |-> "numeric", typed |-> <<"\\", "N", "{", "B", "U", "L", "L", "E", "T", "}">>,
     pattern |-> <<"U+2022">>, replacement |-> <<"U+2022">>]
>>

RECURSIVE TokenSeqs(_)
TokenSeqs(n) ==
  IF n = 0 THEN {<<>>}
  ELSE LET T == TokenSeqs(n - 1)
       IN  T \cup {Append(t, k) : t \in {u \in T : Len(u) = n - 1},
                                  k \in 1..Len(NormTokens)}

\* The text typed for the constructs toks, from the k-th on.
RECURSIVE TypedText(_, _)
TypedText(toks, k) ==
  IF k > Len(toks) THEN <<>>
  ELSE NormTokens[toks[k]].typed \o TypedText(toks, k + 1)

NormReport(op, toks, is_pattern, res) ==
  [op |-> op, tokens |-> toks, is_pattern |-> is_pattern, res |-> res]

InitNorm ==
  /\ objects = <<>>
  /\ storyText = <<>>
  /\ selection = <<>>
  /\ fw = <<>>
  /\ cht = <<>>
  /\ searchCombo = "Document"
  /\ search_state = ResetState
  /\ data = EmptyStore
  /\ buttons = update_buttons_state(FALSE)
  /\ q = CUSTOM
  /\ \E toks \in TokenSeqs(MaxTokens) :
       last = NormReport("typed", toks, TRUE, [ok |-> TRUE, text |-> <<>>])

\* normalize_input(text, is_pattern) on the text typed for last.tokens.
Normalize ==
  \E is_pattern \in BOOLEAN :
    /\ last' = NormReport("normalize_input", last.tokens, is_pattern,
                          normalize_input(TypedText(last.tokens, 1), is_pattern))
    /\ UNCHANGED <<docVars, fw, cht, searchCombo, search_state, data, buttons, q>>

NextNorm == Normalize

SpecNorm == InitNorm /\ [][NextNorm]_vars

\* What the mode makes of the constructs toks, construct by construct.
RECURSIVE Images(_, _, _)
Images(toks, is_pattern, k) ==
  IF k > Len(toks) THEN <<>>
  ELSE (IF is_pattern THEN NormTokens[toks[k]].pattern
        ELSE NormTokens[toks[k]].replacement) \o Images(toks, is_pattern, k + 1)

\* Every escape of the text is one the user typed: no backslash that comes
\* out of a tag or a numeric escape stands before a typed t, n or r.
EscapesAsTyped(toks) ==
  \A k \in 1..(Len(toks) - 1) :
    LET out == NormTokens[toks[k]].pattern
    IN  ~ /\ NormTokens[toks[k]].kind \in {"tag", "numeric"}
          /\ out[Len(out)] = "\\"
          /\ Head(NormTokens[toks[k + 1]].typed) \in {"t", "n", "r"}

Kinds(toks) == {NormTokens[toks[k]].kind : k \in 1..Len(toks)}

\* C22: in Pattern mode the escapes \t, \n, \r and the placeholders
\* <FOUNDn> come out as typed, in Replacement mode the escapes come out as
\* the control characters and <FOUNDn> as \g<n>, and tags and numeric
\* escapes come out decoded, the same in both modes: the normalized text is
\* the concatenation of what the mode makes of each construct, and a text
\* without escapes and placeholders normalizes to the same text in both
\* modes.
C22_ModeDistinction ==
  (last.op = "normalize_input" /\ EscapesAsTyped(last.tokens)) =>
    /\ last.res.ok
    /\ last.res.text = Images(last.tokens, last.is_pattern, 1)
    /\ (Kinds(last.tokens) \cap {"escape", "found"} = {}) =>
         last.res.text = normalize_input(TypedText(last.tokens, 1), ~last.is_pattern).text

\* C22 witness: in Replacement mode, a placeholder and an escape after a
\* decoded tag or numeric escape have been normalized.
C22_Witness ==
  /\ last.op = "normalize_input" /\ ~last.is_pattern
  /\ Len(last.tokens) = 2
  /\ NormTokens[last.tokens[1]].kind \in {"tag", "numeric"}
  /\ NormTokens[last.tokens[2]].kind \in {"escape", "found"}
  /\ last.res.text # normalize_input(TypedText(last.tokens, 1), TRUE).text


\* Find next is invoked with a scope or a normalized pattern other than the
\* one the session stores.
ScopeOrPatternDiffers ==
  /\ last'.op = "find_next"
  /\ normalize_input(fw, TRUE).ok /\ normalize_input(fw, TRUE).text # <<>>
  /\ TypedRegex.ok
  /\ \/ search_state.mode # searchCombo
     \/ search_state.pattern # normalize_input(fw, TRUE).text

\* C23: when Find next is invoked with a scope or normalized pattern other
\* than the stored one, the session restarts before the search: the
\* containers are those the selected scope resolves to now, the search runs
\* from offset 0 of the first container with an empty cache and a count of
\* 0, so the call yields the first match of the first container whose
\* search from 0 stops on a non-empty match, with count 1 and only the
\* containers searched cached, or reports Exhausted with count 0.
C23_Step ==
  ScopeOrPatternDiffers =>
    LET cs == ScopeWithFallback
        hits == {j \in 1..Len(cs) : StartsNonEmpty(cs[j])}
    IN  IF cs = <<>> THEN last'.res = "NoFrames"
        ELSE IF hits = {}
        THEN last'.res = "Exhausted" /\ last'.count = 0 /\ search_state' = ResetState
        ELSE LET j == CHOOSE i \in hits : \A k \in hits : i <= k
             IN  /\ last'.res = "Match"
                 /\ last'.frame = cs[j]
                 /\ last'.s = LeftmostFrom(cs[j], 0).s
                 /\ last'.e = LeftmostFrom(cs[j], 0).e
                 /\ search_state'.mode = searchCombo
                 /\ search_state'.pattern = normalize_input(fw, TRUE).text
                 /\ search_state'.frames = cs
                 /\ search_state'.story_index = j - 1
                 /\ search_state'.char_index = last'.e
                 /\ search_state'.found_count = 1
                 /\ DOMAIN search_state'.story_text_cache = {cs[k] : k \in 1..j}
                 /\ \A k \in 1..j : search_state'.story_text_cache[cs[k]] = storyText[cs[k]]

C23_EnsureInitialized == [][C23_Step]_vars

\* C23 witness: a Find next under a second pattern, after a session under
\* another pattern yielded a match, has restarted with count 1.
C23_Witness ==
  /\ last.op = "find_next" /\ last.res = "Match"
  /\ search_state.found_count = 1
  /\ Len(DictGet(data, "_find_what_history", <<>>)) = 2
  /\ search_state.pattern = DictGet(data, "_find_what_history", <<>>)[1]


\* Find next pressed again and again: the button stays enabled while a
\* session is open, and nothing else is invoked.
SpecFindLive == SpecFind /\ WF_vars(FindNext)

\* What is left to search in the session st: the characters of the current
\* container from char_index on and those of the later containers, one more
\* per container.
RECURSIVE Remaining(_, _)
Remaining(st, k) ==
  IF k > Len(st.frames) THEN 0
  ELSE Len(storyText[st.frames[k]]) + 1
       - (IF k = st.story_index + 1 THEN st.char_index ELSE 0)
       + Remaining(st, k + 1)

Exhausted == last.op = "find_next" /\ last.res = "Exhausted"

\* C24 (the exhausting call and the call after it): the call that runs past
\* the last container reports the count of the matches yielded so far and
\* clears every field of the session; the Find next after it starts again
\* at offset 0 of the first container with count 0.
C24_Step ==
  /\ (last'.op = "find_next" /\ last'.res = "Exhausted") =>
       /\ last'.count = search_state.found_count
       /\ search_state' = ResetState
  /\ (Exhausted /\ last'.op = "find_next") =>
       /\ search_state = ResetState
       /\ LET cs == ScopeWithFallback
              hits == {j \in 1..Len(cs) : StartsNonEmpty(cs[j])}
          IN  IF hits = {} THEN last'.res = "Exhausted" /\ last'.count = 0
              ELSE LET j == CHOOSE i \in hits : \A k \in hits : i <= k
                   IN  /\ last'.res = "Match" /\ last'.count = 1
                       /\ last'.frame = cs[j]
                       /\ last'.s = LeftmostFrom(cs[j], 0).s
                       /\ search_state'.story_index = j - 1

\* C24: from every state with an open session, Find next repeated with no
\* other operation in between reaches the call that reports Exhausted after
\* finitely many calls: each call either reports Exhausted or yields a
\* match and leaves strictly less to search, a natural number; the
\* exhausting call reports the cumulative count and leaves the session
\* cleared, and the next Find next starts from the first container at
\* offset 0 with count 0.
C24_Calls ==
  /\ C24_Step
  /\ (search_state.frames # <<>> /\ last'.op = "find_next") =>
        \/ last'.res = "Exhausted"
        \/ /\ last'.res = "Match"
           /\ search_state'.frames = search_state.frames
           /\ Remaining(search_state', search_state'.story_index + 1) >= 0
           /\ Remaining(search_state', search_state'.story_index + 1)
                < Remaining(search_state, search_state.story_index + 1)

C24_Exhaustion == [][C24_Calls]_vars

\* C24 witness: a session that yielded one match has been exhausted and
\* cleared.
C24_Witness ==
  /\ Exhausted /\ last.count = 1
  /\ search_state = ResetState
  /\ buttons = {"find_next", "change_all"}


\* Change or Change/Find is invoked in an open session after the scope
\* selection has changed: the selected scope is not the one the session was
\* opened under.
AfterScopeChange ==
  /\ last'.op \in {"change", "change_find"}
  /\ normalize_input(fw, TRUE).ok /\ normalize_input(cht, FALSE).ok
  /\ normalize_input(fw, TRUE).text # <<>>
  /\ TypedRegex.ok
  /\ search_state.frames # <<>>
  /\ search_state.story_index < Len(search_state.frames)
  /\ search_state.frames[search_state.story_index + 1]
       \in DOMAIN search_state.story_text_cache
  /\ search_state.mode # searchCombo

\* C25 as stated: after the scope selection has changed in an open session,
\* Change and Change/Find fail with NoActiveMatch.
C25_StepAsStated == AfterScopeChange => last'.res \in NoActiveMatchWarnings

C25_AsStated == [][C25_StepAsStated]_vars

\* C25: selecting a scope leaves the session as it is (only the next Find
\* next resets it); Change and Change/Find invoked after the scope selection
\* has changed in an open session act on that session: they fail with
\* NoActiveMatch only when the current text is empty, char_index is 0 or no
\* match ends at char_index, Change replaces the located match in the
\* session's current container, and the session keeps the container list
\* and the scope it was opened under.
C25_Step ==
  /\ last'.op = "select_search" => search_state' = search_state
  /\ AfterScopeChange =>
       /\ (last'.res \in NoActiveMatchWarnings)
            = \/ CurrentText(search_state) = <<>>
              \/ search_state.char_index = 0
              \/ ~LocatedMatch.found
       /\ (last'.op = "change" /\ last'.res = "Replaced") =>
            /\ last'.frame = search_state.frames[search_state.story_index + 1]
            /\ last'.s = LocatedMatch.s
            /\ storyText'[last'.frame]
                 = Spliced(storyText[last'.frame], LocatedMatch.s, LocatedMatch.e,
                           match_expand(TypedRegex, CurrentText(search_state),
                                        LocatedMatch, TypedReplacement).text)
       /\ search_state'.frames # <<>> =>
            /\ search_state'.frames = search_state.frames
            /\ search_state'.mode = search_state.mode

C25_ScopeChange == [][C25_Step]_vars

\* C25 witness: Change has replaced the match of a session opened under a
\* scope other than the selected one.
C25_Witness ==
  /\ last.op = "change" /\ last.res = "Replaced"
  /\ search_state.frames # <<>>
  /\ search_state.mode # searchCombo


\* The range [s, e) of text is a match of the pattern typed into Find what.
IsTypedMatch(text, s, e) ==
  /\ rg_search(TypedRegex, text, s).found
  /\ rg_search(TypedRegex, text, s).s = s
  /\ rg_search(TypedRegex, text, s).e = e

\* C26: whenever the session holds a compiled pattern after a step, it is
\* the compilation of the session's pattern text; every match Find next or
\* Change/Find yields is a match of the normalized Find what text of that
\* call in the text searched, and the match Change replaces is the one that
\* pattern locates at char_index.
C26_Step ==
  /\ search_state'.regex # NoneRegex =>
       search_state'.regex = re_compile(search_state'.pattern)
  /\ (last'.op \in {"find_next", "change_find"} /\ last'.res = "Match") =>
       /\ search_state'.pattern = normalize_input(fw, TRUE).text
       /\ IsTypedMatch(search_state'.story_text_cache[last'.frame], last'.s, last'.e)
  /\ (last'.op = "change" /\ last'.res = "Replaced") =>
       /\ search_state'.regex = TypedRegex
       /\ LocatedMatch.found /\ last'.s = LocatedMatch.s
       /\ search_state'.story_text_cache[last'.frame]
            = Spliced(CurrentText(search_state), LocatedMatch.s, LocatedMatch.e,
                      match_expand(TypedRegex, CurrentText(search_state),
                                   LocatedMatch, TypedReplacement).text)

C26_PatternNeverStale == [][C26_Step]_vars

\* C26 witness: after the pattern was edited between two sessions, Change
\* has replaced a match and the session holds the pattern compiled from the
\* Find what text.
C26_Witness ==
  /\ last.op = "change" /\ last.res = "Replaced"
  /\ search_state.regex = TypedRegex
  /\ Len(DictGet(data, "_find_what_history", <<>>)) = 2


\* The compile block of a handler compiles: the session holds no compiled
\* pattern, or its pattern text is not the normalized Find what.
Compiles ==
  \/ search_state.regex = NoneRegex
  \/ search_state.pattern # normalize_input(fw, TRUE).text

\* C27: when Find next is invoked right after a Find next that yielded a
\* match, with the same Find what text and the same scope, the call compiles
\* nothing: the session holds the pattern compiled by the first call and the
\* call uses it.
C27_Step ==
  ( /\ last.op = "find_next" /\ last.res = "Match"
    /\ last'.op = "find_next"
    /\ search_state.mode = searchCombo )
  => ~Compiles

C27_CompileCache == [][C27_Step]_vars


(***************************************************************************)
(* The session operations on their own: Find next, Change and Change/Find  *)
(* with the scope combo box, no Scribus call failing.                      *)
(***************************************************************************)
NextSession == FindNext \/ Change \/ ChangeFind \/ SelectSearch

SpecSession == Init /\ [][NextSession]_vars

\* The step goes on in the open session: it neither opens nor closes one.
SameSession ==
  /\ search_state.frames # <<>> /\ search_state'.frames # <<>>
  /\ ~(last'.op = "find_next" /\ search_state.mode # searchCombo)

\* C28: after every Find next, Change and Change/Find the cached text of
\* every cached container is that container's text in the document; a
\* container enters the cache when a call misses on it and stays cached as
\* long as the session lasts, so no later call of the session reads it
\* again.
C28_Step ==
  /\ \A f \in DOMAIN search_state'.story_text_cache :
       search_state'.story_text_cache[f] = storyText'[f]
  /\ SameSession =>
       DOMAIN search_state.story_text_cache \subseteq DOMAIN search_state'.story_text_cache

C28_CacheAgrees == [][C28_Step]_vars

\* C28 witness: Change has replaced a match in the second of two cached
\* containers, changing its text.
C28_Witness ==
  /\ last.op = "change" /\ last.res = "Replaced"
  /\ Cardinality(DOMAIN search_state.story_text_cache) = 2
  /\ search_state.story_index = 1
  /\ last.e - last.s # 1


(***************************************************************************)
(* A single replacement with a failing Scribus call: Change and            *)
(* Change/Find with one call of the select/delete/insert sequence raising. *)
(***************************************************************************)
\* The Scribus call of the sequence that raises; "none": no call raises.
StoreCalls == {"none", "selectObject", "selectText", "deleteText", "insertText",
               "reselectText"}

\* Matches counted per session: Change/Find can yield the same empty match
\* again and again.
MaxFoundCount == 4

\* The cached texts are kept within the bound of the story texts.
ChangeFailing ==
  /\ "change" \in buttons
  /\ \E failAt \in StoreCalls : on_change(failAt)
  /\ TextsBounded(search_state'.story_text_cache)

ChangeFindFailing ==
  /\ "change_find" \in buttons
  /\ \E failAt \in StoreCalls \ {"reselectText"} : on_change_find(failAt, {})
  /\ TextsBounded(search_state'.story_text_cache)
  /\ search_state'.found_count <= MaxFoundCount

NextStoreFail == FindNext \/ ChangeFailing \/ ChangeFindFailing

SpecStoreFail == Init /\ [][NextStoreFail]_vars

\* C29: when a Scribus call of the select/delete/insert sequence raises
\* during Change or Change/Find, the cached text of every cached container
\* and char_index have the values they had before the call.
C29_Step ==
  (last'.op \in {"change", "change_find"} /\ last'.res = "StoreError") =>
    /\ \A f \in DOMAIN search_state.story_text_cache :
         search_state'.story_text_cache[f] = search_state.story_text_cache[f]
    /\ search_state'.char_index = search_state.char_index

C29_AbortedReplace == [][C29_Step]_vars


\* C30: when Find next or the find step of Change/Find has just yielded the
\* match (s, e), a Change that follows at once does not fail with a
\* NoActiveMatch warning: the match it locates at char_index has start s and
\* end e, and a successful Change replaces the range from s.
C30_Step ==
  ( /\ last.op \in {"find_next", "change_find"} /\ last.res = "Match"
    /\ last'.op = "change" )
  => /\ last'.res \notin NoActiveMatchWarnings
     /\ LocatedMatch.found
     /\ LocatedMatch.s = last.s /\ LocatedMatch.e = last.e
     /\ last'.res = "Replaced" =>
          /\ last'.s = last.s
          /\ Slice(storyText'[last.frame], 0, last.s)
               = Slice(storyText[last.frame], 0, last.s)

C30_Relocation == [][C30_Step]_vars


\* C31: each yielded match is replaced at most once.  A Change called right
\* after a Change, with no yield between the two calls, fails with a
\* NoActiveMatch warning and leaves every story text as it is; and a
\* successful Change that follows the yield (s, e) replaces a range of the
\* same container that starts at s or later, so that it covers neither the
\* text an earlier replacement inserted nor a match yielded earlier, both
\* of which end at or before s.
C31_Step ==
  /\ (last.op = "change" /\ last'.op = "change")
       => /\ last'.res \in NoActiveMatchWarnings
          /\ storyText' = storyText
  /\ ( /\ last.op \in {"find_next", "change_find"} /\ last.res = "Match"
       /\ last'.op = "change" /\ last'.res = "Replaced" )
       => /\ last'.frame = last.frame
          /\ last'.s >= last.s

C31_ReplacedAtMostOnce == [][C31_Step]_vars


\* What is left to search in the session st over the story texts store: the
\* characters of the current container from char_index on and those of the
\* later containers, one more per container.
RECURSIVE RemainingIn(_, _, _)
RemainingIn(st, store, k) ==
  IF k > Len(st.frames) THEN 0
  ELSE Len(store[st.frames[k]]) + 1
       - (IF k = st.story_index + 1 THEN st.char_index ELSE 0)
       + RemainingIn(st, store, k + 1)

\* C32: starting from a yielded match, Change/Find repeated with the same
\* Find what and Change to reports Exhausted after finitely many calls, also
\* for a pattern that matches the empty string, and no story text grows
\* without bound: a call that replaces and yields the next match keeps the
\* containers of the session and leaves strictly less to search, a natural
\* number, so that the calls, and with them the insertions, are finitely
\* many.
C32_Step ==
  ( /\ last.op \in {"find_next", "change_find"} /\ last.res = "Match"
    /\ last'.op = "change_find" /\ last'.res = "Match" )
  => /\ search_state'.frames = search_state.frames
     /\ RemainingIn(search_state', storyText', search_state'.story_index + 1) >= 0
     /\ RemainingIn(search_state', storyText', search_state'.story_index + 1)
          < RemainingIn(search_state, storyText, search_state.story_index + 1)

C32_Progress == [][C32_Step]_vars


\* The session holds no containers, no cursor, no count and no cached text.
Idle ==
  /\ search_state.frames = <<>>
  /\ search_state.story_index = 0
  /\ search_state.char_index = 0
  /\ search_state.found_count = 0
  /\ search_state.story_text_cache = <<>>

\* C33: between two operations the session is either idle (no containers,
\* story_index 0, char_index 0, found_count 0, empty cache) or its cursor
\* is inside its containers: 0 <= story_index < number of containers, the
\* text of the current container is cached, and 0 <= char_index <= length
\* of that cached text.
C33_CursorBounds ==
  \/ Idle
  \/ /\ 0 <= search_state.story_index
     /\ search_state.story_index < Len(search_state.frames)
     /\ search_state.frames[search_state.story_index + 1]
          \in DOMAIN search_state.story_text_cache
     /\ 0 <= search_state.char_index
     /\ search_state.char_index <= Len(CurrentText(search_state))

=============================================================================
